---------------------------- MODULE Spec2Model ----------------------------
(***************************************************************************)
(* Alpha Hyperion v5.3: adaptive routing of text queries to domain         *)
(* experts.  The repository holds two variants of the system:              *)
(*   "nueva"    : .../alpha_hyperion_v53/Nueva carpeta/*.py                 *)
(*   "hyperion" : src/hyperion/*.py with .../alpha_hyperion_v53/*.py        *)
(* Both share hyperion/intelligent_router.py and hyperion/meta_agent.py.   *)
(* Real numbers are fixed-point integers in thousandths (0.06 is 60).      *)
(***************************************************************************)
EXTENDS Integers, Sequences, FiniteSets, TLC

(***************************************************************************)
(* Arithmetic helpers                                                      *)
(***************************************************************************)
Min(a, b) == IF a < b THEN a ELSE b
Max(a, b) == IF a > b THEN a ELSE b
\* numpy.clip(x, lo, hi)
Clip(x, lo, hi) == Max(lo, Min(hi, x))
\* product of two fixed-point numbers
MulK(a, b) == (a * b) \div 1000

RECURSIVE SumSeq(_)
SumSeq(s) == IF s = <<>> THEN 0 ELSE Head(s) + SumSeq(Tail(s))

RECURSIVE SumOver(_, _)
\* sum of f[x] for x in the set S
SumOver(f, S) ==
    IF S = {} THEN 0
    ELSE LET x == CHOOSE y \in S : TRUE IN f[x] + SumOver(f, S \ {x})

Range(s) == {s[i] : i \in 1..Len(s)}
\* the values of a function
Range2(f) == {f[x] : x \in DOMAIN f}

Variants == {"nueva", "hyperion"}

(***************************************************************************)
(* Query texts.  A text is a sequence of chunks (words or short phrases)   *)
(* joined by single blanks; the chunk " " is leading or trailing white     *)
(* space.  Lower and Strip are str.lower() and str.strip() on that form.   *)
(***************************************************************************)
LowerChunk(c) ==
    CASE c = "Crear" -> "crear"
      [] c = "Python" -> "python"
      [] c = "HOLA" -> "hola"
      [] c = "Cuanto es" -> "cuanto es"
      [] OTHER -> c

Lower(t) == [i \in 1..Len(t) |-> LowerChunk(t[i])]

RECURSIVE LStrip(_)
LStrip(t) == IF t # <<>> /\ Head(t) = " " THEN LStrip(Tail(t)) ELSE t

RECURSIVE RStrip(_)
RStrip(t) ==
    IF t # <<>> /\ t[Len(t)] = " " THEN RStrip(SubSeq(t, 1, Len(t) - 1)) ELSE t

Strip(t) == RStrip(LStrip(t))

\* len(chunk.split()): whitespace-delimited words of a chunk
ChunkWords(c) ==
    CASE c = " " -> 0
      [] c = "2 + 2" -> 3
      [] c \in {"Cuanto es", "cuanto es"} -> 2
      [] c = "pad9" -> 9
      [] c = "pad16" -> 16
      [] OTHER -> 1

\* len(chunk): characters of a chunk ("pad16" stands for 16 filler words of
\* 210 characters in all, "pad9" for 9 filler words of 45 characters)
ChunkChars(c) ==
    CASE c = " " -> 1
      [] c = "pad9" -> 45
      [] c = "pad16" -> 210
      [] c \in {"Cuanto es", "cuanto es"} -> 9
      [] c = "2 + 2" -> 5
      [] OTHER -> 7

WordCount(t) == SumSeq([i \in 1..Len(t) |-> ChunkWords(t[i])])
CharLen(t) == SumSeq([i \in 1..Len(t) |-> ChunkChars(t[i])]) + Max(0, Len(t) - 1)

\* the two scenario queries of run_test_queries
QCuanto == <<"Cuanto es", "2 + 2">>
QCrear == <<"Crear", "una", "función", "en", "Python", "para", "ordenar", "una", "lista">>

Texts ==
    { QCuanto, QCrear,
      <<"cuanto es", "2 + 2", " ">>,
      <<"HOLA">>, <<"hola">>, <<" ", "hola">>,
      <<"ensayo", "5">>, <<"traduce", "función">>, <<"calcula">>,
      <<"algoritmo", "primos", "pad9">>,
      <<"función", "integral", "ensayo", "pad16">>,
      <<"hola", "pad16">>, <<"Crear", "Python">> }

(***************************************************************************)
(* FastPatternClassifier, variant "nueva" (scores per domain, threshold)   *)
(***************************************************************************)
Domains == <<"mathematics", "programming", "language">>
DomainSet == Range(Domains)

\* the compiled patterns of math_patterns / prog_patterns / lang_patterns a
\* lower-case chunk matches (M1..M4, P1..P5, L1..L3 in source order)
ChunkPatterns(c) ==
    CASE c = "2 + 2" -> {"M1"}
      [] c = "integral" -> {"M2"}
      [] c = "función" -> {"P1"}
      [] c = "algoritmo" -> {"P2"}
      [] c = "python" -> {"P3"}
      [] c = "ordenar" -> {"P5"}
      [] c = "ensayo" -> {"L1"}
      [] OTHER -> {}

\* the keys of keyword_weights that occur in a lower-case chunk (substring)
ChunkKeywords(c) ==
    CASE c = "integral" -> {"integral"}
      [] c = "primos" -> {"primo"}
      [] c = "función" -> {"función"}
      [] c = "algoritmo" -> {"algoritmo"}
      [] c = "python" -> {"python"}
      [] c = "ordenar" -> {"ordenar"}
      [] c = "crear" -> {"crear"}
      [] c = "ensayo" -> {"ensayo"}
      [] OTHER -> {}

keyword_weights ==
    [ mathematics |-> ("integral" :> 950 @@ "primo" :> 850),
      programming |-> ("función" :> 950 @@ "algoritmo" :> 950 @@ "python" :> 900
                       @@ "ordenar" :> 850 @@ "crear" :> 700),
      language |-> ("ensayo" :> 950) ]

PatternDomain(p) ==
    CASE p \in {"M1", "M2", "M3", "M4"} -> "mathematics"
      [] p \in {"P1", "P2", "P3", "P4", "P5"} -> "programming"
      [] OTHER -> "language"

HasDigit(t) == \E i \in 1..Len(t) : t[i] \in {"2 + 2", "5"}
HasOperator(t) == \E i \in 1..Len(t) : t[i] = "2 + 2"
HasChunk(t, c) == \E i \in 1..Len(t) : t[i] = c

TextPatterns(tl) == UNION {ChunkPatterns(tl[i]) : i \in 1..Len(tl)}
TextKeywords(tl) == UNION {ChunkKeywords(tl[i]) : i \in 1..Len(tl)}

\* scores[d] of classify_fast for the query t
DomainScore(t, d) ==
    LET tl == Lower(t)
        pats == {p \in TextPatterns(tl) : PatternDomain(p) = d}
        kws == TextKeywords(tl) \cap DOMAIN keyword_weights[d]
    IN  300 * Cardinality(pats)
        + SumOver(keyword_weights[d], kws)
        + (IF d = "mathematics" /\ HasDigit(t) THEN 200 ELSE 0)
        + (IF d = "programming"
              /\ (HasChunk(tl, "función") \/ HasChunk(tl, "crear"))
              /\ HasChunk(tl, "python")
           THEN 400 ELSE 0)

Threshold == 400

\* max(scores.items(), key=score): the first domain with the largest score
MaxDomain(t) ==
    LET best == CHOOSE i \in 1..3 :
                  /\ \A j \in 1..3 : DomainScore(t, Domains[j]) <= DomainScore(t, Domains[i])
                  /\ \A j \in 1..(i - 1) : DomainScore(t, Domains[j]) < DomainScore(t, Domains[i])
    IN  Domains[best]

DetectedDomains(t) ==
    LET hit == SelectSeq(Domains, LAMBDA d : DomainScore(t, d) >= Threshold)
    IN  IF hit # <<>> THEN hit
        ELSE IF DomainScore(t, MaxDomain(t)) > 100 THEN <<MaxDomain(t)>>
        ELSE IF HasOperator(t) THEN <<"mathematics">>
        ELSE IF HasChunk(Lower(t), "función") THEN <<"programming">>
        ELSE <<"language">>

\* a complexity that grows with the length of the query, without the clamp
_calculate_complexity_by_length(t, domains) ==
    300 + (IF Len(domains) > 1 THEN 200 ELSE 0) + 50 * WordCount(t)

_calculate_complexity_fast(t, domains) ==
    LET wc == WordCount(t)
        maxScore == DomainScore(t, MaxDomain(t))
        base == 300
                + (IF Len(domains) > 1 THEN 200 ELSE 0)
                + (IF wc > 15 THEN 150 ELSE IF wc > 8 THEN 100 ELSE 0)
                + (IF HasChunk(Lower(t), "algoritmo") THEN 150 ELSE 0)
                + (IF maxScore > 1500 THEN 100 ELSE 0)
    IN  Min(1000, Max(200, base))

_generate_reasoning_fast(domains) ==
    IF Len(domains) = 1
    THEN CASE domains[1] = "mathematics" -> "Operación matemática o cálculo numérico"
           [] domains[1] = "programming" -> "Tarea de programación o desarrollo"
           [] OTHER -> "Consulta de comunicación o redacción"
    ELSE CASE domains = <<"mathematics", "programming">> -> "Tarea multi-dominio: mathematics, programming"
           [] domains = <<"mathematics", "language">> -> "Tarea multi-dominio: mathematics, language"
           [] domains = <<"programming", "language">> -> "Tarea multi-dominio: programming, language"
           [] OTHER -> "Tarea multi-dominio: mathematics, programming, language"

\* the (domains, complexity, reasoning) a cache miss computes, variant nueva
ComputeNueva(t) ==
    LET doms == DetectedDomains(t)
    IN  [domains |-> doms,
         complexity |-> _calculate_complexity_fast(t, doms),
         reasoning |-> _generate_reasoning_fast(doms)]

(***************************************************************************)
(* FastPatternClassifier, variant "hyperion" (first matching rule wins)    *)
(***************************************************************************)
_is_creative_task(t) == HasChunk(Lower(t), "ensayo")
_is_language_task(t) == HasChunk(Lower(t), "traduce")
_is_programming_task(t) ==
    \E c \in {"función", "python", "algoritmo", "ordenar", "lista"} : HasChunk(Lower(t), c)
_is_mathematics_task(t) ==
    LET has_math == HasOperator(t)
        has_keyword == \E c \in {"calcula", "integral", "primos"} : HasChunk(Lower(t), c)
        has_number == HasDigit(t) /\ ~_is_creative_task(t)
    IN  (has_math \/ has_keyword \/ has_number) /\ ~_is_programming_task(t)

ComputeHyperion(t) ==
    LET rule == CASE _is_creative_task(t) -> 1
                  [] _is_language_task(t) -> 2
                  [] _is_programming_task(t) -> 3
                  [] _is_mathematics_task(t) -> 4
                  [] OTHER -> 5
        doms == CASE rule = 3 -> <<"programming">>
                  [] rule = 4 -> <<"mathematics">>
                  [] OTHER -> <<"language">>
        base == CASE rule \in {1, 2} -> Max(300, 400)
                  [] rule = 3 -> Max(300, 500)
                  [] OTHER -> 300
        reasoning == CASE rule = 1 -> "Tarea creativa o literaria"
                       [] rule = 2 -> "Consulta de comunicación o traducción"
                       [] rule = 3 -> "Tarea de programación o desarrollo"
                       [] rule = 4 -> "Operación matemática o cálculo numérico"
                       [] OTHER -> "Consulta general de comunicación"
    IN  [domains |-> doms,
         complexity |-> base + (IF Len(doms) > 1 THEN 100 ELSE 0)
                             + (IF CharLen(t) > 200 THEN 100 ELSE 0),
         reasoning |-> reasoning]

(***************************************************************************)
(* Expert registry (expert_models.py).  The hyperion Expert has no load    *)
(* and no collaboration_history attribute; reading one raises              *)
(* AttributeError.                                                         *)
(***************************************************************************)
ExpertIds == <<"mathstral:7b", "codegemma:2b", "gemma2:2b">>
ExpertIdSet == Range(ExpertIds)

\* a mapping that sends programming to the mathematics expert
domain_mapping_crossed ==
    [d \in DomainSet |->
        CASE d = "mathematics" -> "mathstral:7b"
          [] d = "programming" -> "mathstral:7b"
          [] OTHER -> "gemma2:2b"]

\* ExpertFactory.get_domain_mapping()
domain_mapping ==
    [mathematics |-> "mathstral:7b", programming |-> "codegemma:2b", language |-> "gemma2:2b"]

\* Rosters: "default" is ExpertFactory.create_default_experts(); "shared" is
\* a roster passed to AlphaHyperionSystem(experts=...) with the same ids in
\* which codegemma:2b carries the domain tag of mathstral:7b.
Rosters == {"default", "shared"}

NoCollab == [o \in {} |-> 1000]

ExpertNueva(dom, sr, av, sp, mlc, rr) ==
    [domain |-> dom, success_rate |-> sr, availability |-> av,
     specialization_score |-> sp, max_load_capacity |-> mlc, recovery_rate |-> rr,
     load |-> 0, fatigue |-> 0, collaboration_history |-> NoCollab]

ExpertHyperion(dom, sr, av, sp, mlc, rr) ==
    [domain |-> dom, success_rate |-> sr, availability |-> av,
     specialization_score |-> sp, max_load_capacity |-> mlc, recovery_rate |-> rr,
     fatigue |-> 0]

create_default_experts(v) ==
    IF v = "nueva"
    THEN [e \in ExpertIdSet |->
            CASE e = "mathstral:7b" -> ExpertNueva("mathematics", 880, 950, 1500, 16000, 180)
              [] e = "codegemma:2b" -> ExpertNueva("programming", 840, 940, 1400, 18000, 200)
              [] OTHER -> ExpertNueva("language", 820, 960, 1300, 20000, 220)]
    ELSE [e \in ExpertIdSet |->
            CASE e = "mathstral:7b" -> ExpertHyperion("mathematics", 880, 950, 1500, 16000, 180)
              [] e = "codegemma:2b" -> ExpertHyperion("programming", 840, 960, 1300, 12000, 250)
              [] OTHER -> ExpertHyperion("language", 820, 970, 1300, 14000, 220)]

\* the domain tag an expert of the default roster is created with
created_domain(e) == create_default_experts("hyperion")[e].domain

\* every roster the constructor accepts: "partial" is a roster passed to
\* AlphaHyperionSystem(experts=...) that lacks codegemma:2b
CustomRosters == Rosters \cup {"partial"}

InitialExperts(v, r) ==
    LET d == create_default_experts(v)
    IN  IF r = "default" THEN d
        ELSE IF r = "partial" THEN [e \in ExpertIdSet \ {"codegemma:2b"} |-> d[e]]
        ELSE [d EXCEPT !["codegemma:2b"] = [@ EXCEPT !.domain = "mathematics"]]

HasAttr(e, a) == a \in DOMAIN e

\* update_performance without the caps on load and fatigue
UpdatePerformanceNuevaUncapped(e, performance, c) ==
    LET load1 == e.load + MulK(c, 800)
        fat1 == e.fatigue + MulK(c, 500)
        load2 == Max(0, load1 - e.recovery_rate)
        fat2 == Max(0, fat1 - MulK(e.recovery_rate, 500))
    IN  [e EXCEPT !.load = load2, !.fatigue = fat2,
                  !.availability = Max(700, 1000 - MulK((load2 * 1000) \div e.max_load_capacity, 300))]

\* Expert.update_performance(performance, task_complexity), nueva
UpdatePerformanceNueva(e, performance, c) ==
    LET load1 == Min(e.max_load_capacity, e.load + MulK(c, 800))
        fat1 == Min(MulK(e.max_load_capacity, 800), e.fatigue + MulK(c, 500))
        load2 == Max(0, load1 - e.recovery_rate)
        fat2 == Max(0, fat1 - MulK(e.recovery_rate, 500))
    IN  [e EXCEPT !.load = load2, !.fatigue = fat2,
                  !.availability = Max(700, 1000 - MulK((load2 * 1000) \div e.max_load_capacity, 300))]

\* Expert.update_performance(performance, complexity), hyperion
UpdatePerformanceHyperion(e, performance, c) ==
    LET adjustment == MulK(MulK(20, performance - 800), c)
        fat == Max(0, e.fatigue - e.recovery_rate)
    IN  [e EXCEPT !.success_rate = Max(500, Min(1000, e.success_rate + adjustment)),
                  !.fatigue = fat,
                  !.availability = IF fat > e.max_load_capacity THEN MulK(@, 900) ELSE @]

update_performance(v, e, performance, c) ==
    IF v = "nueva" THEN UpdatePerformanceNueva(e, performance, c)
    ELSE UpdatePerformanceHyperion(e, performance, c)

(***************************************************************************)
(* Task (expert_models.py).  nueva: complexity is a property computed from *)
(* the three factors; hyperion: complexity is a dataclass field, 0.0       *)
(* unless the caller passes it.                                            *)
(***************************************************************************)
Task(doms, breadth, inter, scope, given) ==
    [required_domains |-> doms, domain_breadth |-> breadth,
     interdependency |-> inter, task_scope |-> scope, complexity_field |-> given]

Complexity(v, task) ==
    IF v = "nueva"
    THEN (400 * task.domain_breadth + 400 * task.interdependency
          + 200 * task.task_scope) \div 1000
    ELSE task.complexity_field

\* the Task route_query builds from the classification
BuildTask(domains, complexity) ==
    Task(domains, complexity,
         MulK(complexity, IF Len(domains) > 1 THEN 1100 ELSE 1000),
         MulK(complexity, 1050), 0)

(***************************************************************************)
(* Candidate ranking: AlphaHyperionSystem._get_relevant_experts            *)
(***************************************************************************)
RECURSIVE MappedIds(_, _)
\* one mapped id per required domain, order kept, duplicates dropped
MappedIds(doms, acc) ==
    IF doms = <<>> THEN acc
    ELSE LET d == Head(doms)
             id == IF d \in DOMAIN domain_mapping THEN domain_mapping[d] ELSE "none"
         IN  MappedIds(Tail(doms),
                       IF id # "none" /\ id \notin Range(acc) THEN Append(acc, id) ELSE acc)

RECURSIVE SortByScoreDesc(_, _)
\* list.sort(key=score, reverse=True): stable, descending
SortByScoreDesc(ids, score) ==
    IF ids = <<>> THEN <<>>
    ELSE LET i == CHOOSE k \in 1..Len(ids) :
                    /\ \A j \in 1..Len(ids) : score[ids[j]] <= score[ids[k]]
                    /\ \A j \in 1..(k - 1) : score[ids[j]] < score[ids[k]]
             rest == [j \in 1..(Len(ids) - 1) |-> IF j < i THEN ids[j] ELSE ids[j + 1]]
         IN  <<ids[i]>> \o SortByScoreDesc(rest, score)

RankScore(e) ==
    MulK(MulK(MulK(e.success_rate, e.specialization_score), e.availability),
         1000 - (e.fatigue * 1000) \div e.max_load_capacity)

\* the nueva ranking reads self.experts[exp_id] of every mapped id when
\* there are several: KeyError on an id that is not registered
RelevantRaises(v, reg, task) ==
    LET relevant == MappedIds(task.required_domains, <<>>)
    IN  v = "nueva" /\ Len(relevant) > 1 /\ \E i \in 1..Len(relevant) : relevant[i] \notin DOMAIN reg

\* candidates looked up by the experts' own domain tags
_get_relevant_experts_by_tag(v, reg, task) ==
    LET tagged == SelectSeq(ExpertIds, LAMBDA id : reg[id].domain \in Range(task.required_domains))
    IN  IF tagged = <<>> THEN <<ExpertIds[1]>> ELSE tagged

_get_relevant_experts(v, reg, task) ==
    LET relevant == MappedIds(task.required_domains, <<>>)
        sorted == IF v = "nueva" /\ Len(relevant) > 1
                  THEN SortByScoreDesc(relevant, [id \in Range(relevant) |-> RankScore(reg[id])])
                  ELSE relevant
    IN  IF sorted = <<>> THEN <<ExpertIds[1]>> ELSE sorted

(***************************************************************************)
(* IntelligentRouter (hyperion/intelligent_router.py)                      *)
(***************************************************************************)
\* deque(maxlen=50) per key and deque(maxlen=200) of the router, scaled down
MemoryWindow == 2
TaskHistoryCap == 3

\* a bounded list that refuses the new element when full
DequeAppendKeepOld(q, x, cap) ==
    IF Len(q) < cap THEN Append(q, x) ELSE q

\* deque.append on a deque(maxlen=cap)
DequeAppend(q, x, cap) ==
    IF Len(q) < cap THEN Append(q, x) ELSE Append(Tail(q), x)

\* f"{expert_id}_{'_'.join(sorted(domains))}"
MemoryKey(id, doms) == <<id, Range(doms)>>

\* numpy.average(history, weights=numpy.linspace(0.5, 1.0, n))
WeightedAverage(h) ==
    LET n == Len(h)
    IN  IF n = 1 THEN h[1]
        ELSE SumSeq([i \in 1..n |-> (n - 1 + (i - 1)) * h[i]])
             \div SumSeq([i \in 1..n |-> n - 1 + (i - 1)])

_get_recent_performance(mem, id, doms) ==
    LET key == MemoryKey(id, doms)
    IN  IF key \notin DOMAIN mem \/ mem[key] = <<>> THEN 0
        ELSE WeightedAverage(mem[key])

\* _calculate_expert_score; "AttributeError" when the Expert has no load
ScoreRaises(e) == ~HasAttr(e, "load")

_calculate_expert_score(mem, id, e, task) ==
    LET performance_score == MulK(e.success_rate, e.specialization_score)
        availability_score ==
            MulK(e.availability, 1000 - (e.fatigue * 1000) \div e.max_load_capacity)
        domain_bonus == IF e.domain \in Range(task.required_domains) THEN 1200 ELSE 1000
        load_penalty == 1000000 \div (1000 + MulK(e.load, 150))
        recent_perf == _get_recent_performance(mem, id, task.required_domains)
        history_bonus == IF recent_perf > 0 THEN 1000 + MulK(recent_perf - 750, 500) ELSE 1000
    IN  MulK(MulK(MulK(MulK(performance_score, availability_score), domain_bonus),
                  load_penalty), history_bonus)

Returned(ids) == [raised |-> "none", ids |-> ids]
Raised(exc) == [raised |-> exc, ids |-> <<>>]

\* the collaboration branch of select_experts (lines 42-61)
SelectCollaboration(reg, mem, candidates, task) ==
    LET top == SubSeq(candidates, 1, Min(3, Len(candidates)))
        fails(i) == top[i] \notin DOMAIN reg \/ ScoreRaises(reg[top[i]])
    IN  IF \E i \in 1..Len(top) : fails(i)
        THEN LET i == CHOOSE k \in 1..Len(top) : fails(k) /\ \A j \in 1..(k - 1) : ~fails(j)
             IN  IF top[i] \notin DOMAIN reg THEN Raised("KeyError")
                 ELSE Raised("AttributeError")
        ELSE LET score == [id \in Range(top) |-> _calculate_expert_score(mem, id, reg[id], task)]
                 scored_candidates == SortByScoreDesc(top, score)
                 first == scored_candidates[1]
                 others == SelectSeq(Tail(scored_candidates),
                                     LAMBDA id : reg[id].domain # reg[first].domain)
             IN  Returned(IF others = <<>> THEN <<first>> ELSE <<first, Head(others)>>)

select_experts(v, reg, mem, candidates, task) ==
    LET num_domains == Len(task.required_domains)
    IN  IF candidates = <<>> THEN Returned(<<ExpertIds[1]>>)
        ELSE IF num_domains = 1 THEN Returned(<<candidates[1]>>)
        ELSE IF num_domains >= 2 /\ Complexity(v, task) > 400
             THEN SelectCollaboration(reg, mem, candidates, task)
        ELSE Returned(<<candidates[1]>>)

\* [self.experts[exp_id] for exp_id in selected_experts_ids] of route_query:
\* KeyError on an id that is not registered
LookupSelected(reg, sel) ==
    IF sel.raised = "none" /\ \E i \in 1..Len(sel.ids) : sel.ids[i] \notin DOMAIN reg
    THEN Raised("KeyError") ELSE sel

\* update_performance_memory: the three pieces of router state it writes
MemoryAfter(mem, id, task, performance) ==
    LET key == MemoryKey(id, task.required_domains)
        old == IF key \in DOMAIN mem THEN mem[key] ELSE <<>>
    IN  [k \in DOMAIN mem \cup {key} |->
            IF k = key THEN DequeAppend(old, performance, MemoryWindow) ELSE mem[k]]

TaskHistoryAfter(v, hist, id, task, performance) ==
    DequeAppend(hist, [expert |-> id, domains |-> task.required_domains,
                       performance |-> performance, complexity |-> Complexity(v, task)],
                TaskHistoryCap)

\* self.expert_assignments[expert_id] += 1 on a defaultdict(int)
AssignmentsAfter(asg, id) ==
    [k \in DOMAIN asg \cup {id} |-> IF k = id THEN (IF id \in DOMAIN asg THEN asg[id] ELSE 0) + 1
                                    ELSE asg[k]]

\* float64: count/total values whose difference is exactly 1/5 in the
\* rationals but evaluates below 0.20 (maxc, minc, total), total <= 10
FloatBelowFifth == {<<3, 2, 5>>, <<5, 4, 5>>, <<3, 1, 10>>, <<6, 4, 10>>, <<7, 5, 10>>, <<10, 8, 10>>}

\* get_balance_status()['balanced']
IsBalanced(asg) ==
    IF DOMAIN asg = {} THEN TRUE
    ELSE LET total == SumOver(asg, DOMAIN asg)
             maxc == CHOOSE c \in Range2(asg) : \A d \in Range2(asg) : d <= c
             minc == CHOOSE c \in Range2(asg) : \A d \in Range2(asg) : c <= d
         IN  \/ 5 * (maxc - minc) < total
             \/ <<maxc, minc, total>> \in FloatBelowFifth

(***************************************************************************)
(* MonteCarloEngine.  The random trials are not computed: a call draws its *)
(* mean and standard deviation from the outcomes the trials can produce.   *)
(* The hyperion engine returns no std_performance and keeps no cache.      *)
(***************************************************************************)
\* simulation_cache admits entries while len < 500; scaled down
SimCacheLimit == 3

\* SYNERGY_MATRIX_BASE of Nueva carpeta/expert_models.py, keyed by tuples
SYNERGY_MATRIX_BASE ==
    (<<"mathematics", "programming">> :> 1150) @@ (<<"mathematics", "language">> :> 1080)
    @@ (<<"programming", "language">> :> 1100) @@ (<<"default">> :> 1050)

\* the order of str for the domain names
DomainRank(d) == CASE d = "language" -> 1 [] d = "mathematics" -> 2 [] OTHER -> 3

\* tuple(sorted([e.domain for e in experts]))
SortedDomains(reg, ids) ==
    LET n == Len(ids)
        occurs(seq, d) == Cardinality({i \in 1..n : seq[i] = d})
        doms == [i \in 1..n |-> reg[ids[i]].domain]
    IN  CHOOSE seq \in [1..n -> DomainSet] :
            /\ \A d \in DomainSet : occurs(seq, d) = occurs(doms, d)
            /\ \A i \in 1..(n - 1) : DomainRank(seq[i]) <= DomainRank(seq[i + 1])

\* SYNERGY_MATRIX_BASE.get(tuple(sorted(domains)), SYNERGY_MATRIX_BASE[('default',)])
BaseSynergyNueva(reg, ids) ==
    LET key == SortedDomains(reg, ids)
    IN  IF key \in DOMAIN SYNERGY_MATRIX_BASE THEN SYNERGY_MATRIX_BASE[key]
        ELSE SYNERGY_MATRIX_BASE[<<"default">>]

Pairs(ids) == {<<i, j>> \in (1..Len(ids)) \X (1..Len(ids)) : i < j}

CollabGet(e, other) ==
    IF other \in DOMAIN e.collaboration_history THEN e.collaboration_history[other] ELSE 1000

\* a synergy that is the base times the mean of the pairwise multipliers
\* less a coordination cost of a tenth
_calculate_synergy_costly(reg, ids) ==
    IF Len(ids) < 2 THEN 1000
    ELSE LET hist == [p \in Pairs(ids) |-> CollabGet(reg[ids[p[1]]], ids[p[2]])]
             count == Cardinality(Pairs(ids))
         IN  MulK(BaseSynergyNueva(reg, ids), SumOver(hist, Pairs(ids)) \div count - 100)

\* MonteCarloEngine._calculate_synergy, nueva
_calculate_synergy(reg, ids) ==
    IF Len(ids) < 2 THEN 1000
    ELSE LET hist == [p \in Pairs(ids) |-> CollabGet(reg[ids[p[1]]], ids[p[2]])]
             count == Cardinality(Pairs(ids))
             collab_adjustment == (1000 + SumOver(hist, Pairs(ids))) \div count
         IN  MulK(BaseSynergyNueva(reg, ids), collab_adjustment)

\* SYNERGY_MATRIX_BASE of src/hyperion/expert_models.py (a 3x3 array)
SynergyMatrix(d1, d2) ==
    IF d1 = d2 THEN 1000
    ELSE IF {d1, d2} = {"mathematics", "programming"} THEN 300
    ELSE IF {d1, d2} = {"mathematics", "language"} THEN 200
    ELSE 400

\* float(np.mean(synergy_factors)) of _compute_synergy, hyperion
_compute_synergy(reg, ids) ==
    LET n == Len(ids)
        cell == [p \in (1..n) \X (1..n) |->
                    IF p[1] = p[2] THEN 1000
                    ELSE SynergyMatrix(reg[ids[p[1]]].domain, reg[ids[p[2]]].domain)]
    IN  SumOver(cell, (1..n) \X (1..n)) \div (n * n)

\* _generate_cache_key: sorted ids, sorted domains, round(complexity, 2)
SimCacheKey(v, ids, task) ==
    <<Range(ids), Range(task.required_domains), (Complexity(v, task) + 5) \div 10>>

\* the result of a cache miss
SimulateFresh(v, reg, ids, task, draw) ==
    IF v = "nueva"
    THEN [mean_performance |-> draw.mean, std_performance |-> draw.std,
          synergy |-> _calculate_synergy(reg, ids)]
    ELSE [mean_performance |-> draw.mean,
          synergy |-> IF Len(ids) > 1 THEN _compute_synergy(reg, ids) ELSE 1000]

\* a hit that runs the trials again and stores what they give
simulate_collaboration_refresh(v, reg, cache, ids, task, draw) ==
    LET key == SimCacheKey(v, ids, task)
        fresh == SimulateFresh(v, reg, ids, task, draw)
    IN  IF v = "hyperion" THEN [result |-> fresh, cache |-> cache]
        ELSE [result |-> fresh,
              cache |-> IF key \in DOMAIN cache \/ Cardinality(DOMAIN cache) < SimCacheLimit
                        THEN [k \in DOMAIN cache \cup {key} |->
                                IF k = key THEN fresh ELSE cache[k]]
                        ELSE cache]

\* simulate_collaboration: [result, cache]
simulate_collaboration(v, reg, cache, ids, task, draw) ==
    LET key == SimCacheKey(v, ids, task)
        fresh == SimulateFresh(v, reg, ids, task, draw)
    IN  IF v = "hyperion" THEN [result |-> fresh, cache |-> cache]
        ELSE IF key \in DOMAIN cache THEN [result |-> cache[key], cache |-> cache]
        ELSE [result |-> fresh,
              cache |-> IF Cardinality(DOMAIN cache) < SimCacheLimit
                        THEN [k \in DOMAIN cache \cup {key} |->
                                IF k = key THEN fresh ELSE cache[k]]
                        ELSE cache]

\* dict.get(key, default) on a simulation result
McGet(mc, key, default) == IF key \in DOMAIN mc THEN mc[key] ELSE default

(***************************************************************************)
(* MetaAgent (hyperion/meta_agent.py).  The agent is the record            *)
(* [reputation, intervention_count, last_intervention_time,                *)
(*  intervention_history, observations]; time is in whole seconds.         *)
(***************************************************************************)
min_intervention_interval == 5
conflict_threshold_std == 60
low_synergy_threshold == 980
low_performance_threshold == 720

\* deque(maxlen=memory_size=500) and deque(maxlen=200), scaled down
ObservationCap == 3
InterventionCap == 3

NewMetaAgent ==
    [reputation |-> [e \in {} |-> 0], intervention_count |-> 0,
     last_intervention_time |-> 0, intervention_history |-> <<>>, observations |-> <<>>]

\* float(np.std(list)) of at most two contributions
ContribStd(c) ==
    IF Len(c) = 2 THEN (IF c[1] > c[2] THEN c[1] - c[2] ELSE c[2] - c[1]) \div 2 ELSE 0

_detect_conflict(obs) ==
    \/ obs.std_perf > conflict_threshold_std
    \/ obs.synergy < low_synergy_threshold /\ Len(obs.experts) > 1
    \/ obs.mean_perf < low_performance_threshold
    \/ obs.individual_contributions # <<>>
       /\ ContribStd(obs.individual_contributions) > conflict_threshold_std

RECURSIVE ReputationUnclipped(_, _, _)
\* the update without np.clip
ReputationUnclipped(rep, ids, mean_perf) ==
    IF ids = <<>> THEN rep
    ELSE LET id == Head(ids)
             old_rep == IF id \in DOMAIN rep THEN rep[id] ELSE 500
             new == old_rep + (mean_perf - 700) \div 5
         IN  ReputationUnclipped([k \in DOMAIN rep \cup {id} |-> IF k = id THEN new ELSE rep[k]],
                                 Tail(ids), mean_perf)

RECURSIVE ReputationAfter(_, _, _)
\* the loop of observe over the involved experts (lines 48-51)
ReputationAfter(rep, ids, mean_perf) ==
    IF ids = <<>> THEN rep
    ELSE LET id == Head(ids)
             old_rep == IF id \in DOMAIN rep THEN rep[id] ELSE 500
             perf_delta == (mean_perf - 700) \div 5
             new == Clip(old_rep + perf_delta, 0, 1000)
         IN  ReputationAfter([k \in DOMAIN rep \cup {id} |-> IF k = id THEN new ELSE rep[k]],
                             Tail(ids), mean_perf)

\* half the interval
CooldownHalved(now, last) == 2 * (now - last) < min_intervention_interval

\* the interval read as milliseconds
CooldownMillis(now, last) == (now - last) * 1000 < min_intervention_interval

\* the cooldown test of _intervene (line 95): TRUE when the call returns at once
CooldownActive(now, last) == now - last < min_intervention_interval

Correction(kind, a, b, value) == [kind |-> kind, a |-> a, b |-> b, value |-> value]

RECURSIVE CollabDecay(_, _, _)
\* INTERVENCION 1 over the pairs (i, j), i < j, in loop order: [reg, log]
CollabDecay(reg, ids, pairs) ==
    IF pairs = <<>> THEN [reg |-> reg, log |-> <<>>]
    ELSE LET a == ids[Head(pairs)[1]]
             b == ids[Head(pairs)[2]]
             new_collab == Clip(CollabGet(reg[a], b) - 30, 700, 1120)
             setc(e, o) == [e EXCEPT !.collaboration_history =
                               [k \in DOMAIN @ \cup {o} |-> IF k = o THEN new_collab ELSE @[k]]]
             reg1 == [reg EXCEPT ![a] = setc(@, b)]
             reg2 == [reg1 EXCEPT ![b] = setc(@, a)]
             rest == CollabDecay(reg2, ids, Tail(pairs))
         IN  [reg |-> rest.reg, log |-> <<Correction("collab", a, b, new_collab)>> \o rest.log]

\* the pairs (i, j), i < j, of a team of at most three, in loop order
PairSeq(ids) ==
    CASE Len(ids) = 2 -> <<<<1, 2>>>>
      [] Len(ids) = 3 -> <<<<1, 2>>, <<1, 3>>, <<2, 3>>>>
      [] OTHER -> <<>>

RECURSIVE SpecBoostAll(_, _, _)
\* the boost given to every involved expert, whatever its reputation
SpecBoostAll(reg, rep, ids) ==
    IF ids = <<>> THEN [reg |-> reg, log |-> <<>>]
    ELSE LET id == Head(ids)
             new_spec == Clip(reg[id].specialization_score + 50, 700, 2000)
             rest == SpecBoostAll([reg EXCEPT ![id].specialization_score = new_spec], rep, Tail(ids))
         IN  [reg |-> rest.reg, log |-> <<Correction("spec", id, "", new_spec)>> \o rest.log]

RECURSIVE SpecBoost(_, _, _)
\* INTERVENCION 2 over the involved experts: [reg, log]
SpecBoost(reg, rep, ids) ==
    IF ids = <<>> THEN [reg |-> reg, log |-> <<>>]
    ELSE LET id == Head(ids)
             r == IF id \in DOMAIN rep THEN rep[id] ELSE 500
             old_spec == reg[id].specialization_score
             new_spec == Clip(old_spec + 50, 700, 2000)
             reg1 == IF r > 600 THEN [reg EXCEPT ![id].specialization_score = new_spec] ELSE reg
             rest == SpecBoost(reg1, rep, Tail(ids))
         IN  [reg |-> rest.reg,
              log |-> (IF r > 600 THEN <<Correction("spec", id, "", new_spec)>> ELSE <<>>)
                      \o rest.log]

\* min(experts, key=lambda x: (x.fatigue, -x.availability)): first minimum
LeastFatigued(reg, ids) ==
    LET less(x, y) == \/ reg[x].fatigue < reg[y].fatigue
                      \/ reg[x].fatigue = reg[y].fatigue /\ reg[x].availability > reg[y].availability
        i == CHOOSE k \in 1..Len(ids) :
                /\ \A j \in 1..Len(ids) : ~less(ids[j], ids[k])
                /\ \A j \in 1..(k - 1) : less(ids[k], ids[j])
    IN  ids[i]

\* _intervene(experts, task, mc_results, obs) at time now:
\* [reg, agent, raised]; the agent's reputation is already updated
_intervene(reg, agent, ids, mc, obs, now) ==
    IF CooldownActive(now, agent.last_intervention_time)
    THEN [reg |-> reg, agent |-> agent, raised |-> "none"]
    ELSE LET agent1 == [agent EXCEPT !.last_intervention_time = now,
                                     !.intervention_count = @ + 1]
             synergy == McGet(mc, "synergy", 1000)
             mean_perf == McGet(mc, "mean_performance", 700)
             decay == synergy < 1000 /\ Len(ids) > 1
         IN  IF decay /\ ~HasAttr(reg[ids[1]], "collaboration_history")
             THEN [reg |-> reg, agent |-> agent1, raised |-> "AttributeError"]
             ELSE LET s1 == IF decay THEN CollabDecay(reg, ids, PairSeq(ids))
                            ELSE [reg |-> reg, log |-> <<>>]
                      s2 == IF mean_perf < 780 THEN SpecBoost(s1.reg, agent.reputation, ids)
                            ELSE [reg |-> s1.reg, log |-> <<>>]
                      best == LeastFatigued(s2.reg, ids)
                      reg3 == IF obs.std_perf > 100
                              THEN [s2.reg EXCEPT ![best].availability = Min(1000, @ + 30)]
                              ELSE s2.reg
                      interventions ==
                          s1.log \o s2.log
                          \o (IF obs.std_perf > 100 THEN <<Correction("prio", best, "", 0)>> ELSE <<>>)
                      entry == [type |-> "conflict_resolution", interventions |-> interventions,
                                performance |-> mean_perf, synergy |-> synergy, time |-> now]
                  IN  [reg |-> reg3,
                       agent |-> IF interventions # <<>>
                                 THEN [agent1 EXCEPT !.intervention_history =
                                          DequeAppend(@, entry, InterventionCap)]
                                 ELSE agent1,
                       raised |-> "none"]

\* list(self.observations)[-50:], the window scaled down
StatsWindow == 2
RecentObservations(agent) ==
    LET n == Len(agent.observations)
    IN  SubSeq(agent.observations, n - Min(n, StatsWindow) + 1, n)

\* get_statistics()['conflict_rate'], for an agent that has observations
ConflictRate(agent) ==
    LET recent_obs == RecentObservations(agent)
        conflict_count == Cardinality({i \in 1..Len(recent_obs) :
                              \/ recent_obs[i].std_perf > conflict_threshold_std
                              \/ recent_obs[i].synergy < low_synergy_threshold})
    IN  (conflict_count * 1000) \div Len(recent_obs)

\* observe(experts, task, mc_results, individual_contributions) at time now
observe(v, reg, agent, ids, task, mc, contributions, now) ==
    LET obs == [timestamp |-> now,
                domains |-> task.required_domains,
                complexity |-> Complexity(v, task),
                mean_perf |-> McGet(mc, "mean_performance", 0),
                std_perf |-> McGet(mc, "std_performance", 0),
                synergy |-> McGet(mc, "synergy", 1000),
                experts |-> ids,
                individual_contributions |-> contributions]
        agent1 == [agent EXCEPT !.observations = DequeAppend(@, obs, ObservationCap),
                                !.reputation = ReputationAfter(@, ids, obs.mean_perf)]
    IN  IF _detect_conflict(obs) THEN _intervene(reg, agent1, ids, mc, obs, now)
        ELSE IF obs.mean_perf > 820 /\ obs.synergy > 1010
        THEN [reg |-> reg,
              agent |-> [agent1 EXCEPT !.intervention_history =
                           DequeAppend(@, [type |-> "success_pattern", interventions |-> <<>>,
                                           performance |-> obs.mean_perf,
                                           synergy |-> obs.synergy, time |-> now],
                                       InterventionCap)],
              raised |-> "none"]
        ELSE [reg |-> reg, agent |-> agent1, raised |-> "none"]

(***************************************************************************)
(* FastPatternClassifier.classify_fast with its cache.  The classifier is  *)
(* [cache, cache_hits, cache_misses]; the hyperion classifier has no       *)
(* counters (they stay 0) and no limit on the cache.                       *)
(***************************************************************************)
\* "if len(self.cache) < 1000" of the nueva classifier, scaled down
ClassifierCacheLimit == 2

NewClassifier == [cache |-> [k \in {} |-> 0], cache_hits |-> 0, cache_misses |-> 0]

\* nueva: query.lower().strip(); hyperion: md5 of query.lower(), taken as
\* injective on the texts of the model
CacheKeyTable ==
    [v \in Variants |-> [t \in Texts |-> IF v = "nueva" THEN Strip(Lower(t)) ELSE Lower(t)]]

CacheKey(v, t) == CacheKeyTable[v][t]

\* the classification of every text of the model, computed once
ComputeTable ==
    [v \in Variants |-> [t \in Texts |->
        IF v = "nueva" THEN ComputeNueva(t) ELSE ComputeHyperion(t)]]

Compute(v, t) == ComputeTable[v][t]

\* whether a miss stores its result
CacheAdmits(v, cache) == v = "hyperion" \/ Cardinality(DOMAIN cache) < ClassifierCacheLimit

\* a store placed before the complexity of the result is computed
CacheStoreBase(v, cache, key, result) ==
    IF CacheAdmits(v, cache)
    THEN [k \in DOMAIN cache \cup {key} |->
            IF k = key THEN [result EXCEPT !.complexity = 300] ELSE cache[k]]
    ELSE cache

CacheStore(v, cache, key, result) ==
    IF CacheAdmits(v, cache)
    THEN [k \in DOMAIN cache \cup {key} |-> IF k = key THEN result ELSE cache[k]]
    ELSE cache

\* what a cache hit returns
CacheHit(cache, key) == cache[key]

\* classify_fast(query): [result, classifier]
classify_fast(v, cls, t) ==
    LET key == CacheKey(v, t)
    IN  IF key \in DOMAIN cls.cache
        THEN [result |-> CacheHit(cls.cache, key),
              classifier |-> IF v = "nueva" THEN [cls EXCEPT !.cache_hits = @ + 1] ELSE cls]
        ELSE LET result == Compute(v, t)
             IN  [result |-> result,
                  classifier |-> [cls EXCEPT
                      !.cache = CacheStore(v, @, key, result),
                      !.cache_misses = IF v = "nueva" THEN @ + 1 ELSE @]]

(***************************************************************************)
(* State                                                                   *)
(***************************************************************************)
VARIABLES
    variant,              \* which variant of the system runs
    roster,               \* which roster it was constructed with
    experts,              \* self.experts: id -> Expert
    classifier,           \* self.classifier
    monte_carlo,          \* self.monte_carlo.simulation_cache
    router,               \* self.router: performance_memory, task_history, expert_assignments
    meta_agent,           \* self.meta_agent
    total_queries,
    successful_routings,
    routing_history,      \* deque(maxlen=500) of results
    clock,                \* time.time(), whole seconds
    threads,              \* the requests the HTTP server is handling
    last,                 \* the last call made and what it returned
    returned,             \* text -> what the first classify_fast of it returned
    observed,             \* the observe calls made: time, conflict, intervened
    steps                 \* calls made so far

vars == <<variant, roster, experts, classifier, monte_carlo, router, meta_agent,
          total_queries, successful_routings, routing_history, clock, threads, last,
          returned, observed, steps>>

NewRouter == [performance_memory |-> [k \in {} |-> <<>>], task_history |-> <<>>,
              expert_assignments |-> [k \in {} |-> 0]]

\* time.time() at start-up: far above min_intervention_interval
ClockStart == 10

\* AlphaHyperionSystem.__init__
Construct(v, r) ==
    /\ variant = v
    /\ roster = r
    /\ experts = InitialExperts(v, r)
    /\ classifier = NewClassifier
    /\ monte_carlo = [k \in {} |-> 0]
    /\ router = NewRouter
    /\ meta_agent = NewMetaAgent
    /\ total_queries = 0
    /\ successful_routings = 0
    /\ routing_history = <<>>
    /\ clock = ClockStart
    /\ threads = <<>>
    /\ last = [op |-> "init"]
    /\ returned = [t \in {} |-> 0]
    /\ observed = <<>>
    /\ steps = 0

(***************************************************************************)
(* The classifier alone: any sequence of classify_fast calls               *)
(***************************************************************************)
MaxCalls == 4

Remember(t, result) ==
    IF t \in DOMAIN returned THEN returned
    ELSE [k \in DOMAIN returned \cup {t} |-> IF k = t THEN result ELSE returned[k]]

Classify(t) ==
    /\ steps < MaxCalls
    /\ \E r \in {classify_fast(variant, classifier, t)} :
           /\ classifier' = r.classifier
           /\ last' = [op |-> "classify", text |-> t, result |-> r.result,
                       hit |-> CacheKey(variant, t) \in DOMAIN classifier.cache,
                       seen |-> t \in DOMAIN returned,
                       before |-> classifier.cache]
           /\ returned' = Remember(t, r.result)
    /\ steps' = steps + 1
    /\ UNCHANGED <<variant, roster, experts, monte_carlo, router, meta_agent, total_queries,
                   successful_routings, routing_history, clock, threads, observed>>

InitClassifier == \E v \in Variants : Construct(v, "default")
NextClassifier == \E t \in Texts : Classify(t)
SpecClassifier == InitClassifier /\ [][NextClassifier]_vars

\* C9: every classify_fast(t) returns the triple the first classify_fast(t)
\* of the run returned, whatever was classified in between, whether the call
\* hit or missed the cache and whether the cache was full.
C9_CacheCoherence ==
    last.op = "classify" => last.result = returned[last.text]

\* C9 witness: a text classified before is classified again and recomputed,
\* because the cache was full when it first came and never admitted it.
C9_Witness ==
    /\ last.op = "classify"
    /\ last.seen
    /\ ~last.hit
    /\ Cardinality(DOMAIN classifier.cache) = ClassifierCacheLimit

\* C10 (as claimed): the cache never holds more than its capacity, a miss on
\* a full cache leaves it unchanged, and no stored entry is dropped or replaced.
C10_FixedCapacity ==
    /\ Cardinality(DOMAIN classifier.cache) <= ClassifierCacheLimit
    /\ last.op = "classify" =>
         /\ \A k \in DOMAIN last.before :
               k \in DOMAIN classifier.cache /\ classifier.cache[k] = last.before[k]
         /\ Cardinality(DOMAIN last.before) >= ClassifierCacheLimit
               => classifier.cache = last.before

\* C10 on the nueva classifier alone, where the limit exists
C10_FixedCapacityNueva == variant = "nueva" => C10_FixedCapacity

(***************************************************************************)
(* The supervisor alone: any sequence of observe calls                     *)
(***************************************************************************)
MaxObs == 3

\* the teams, simulation results and contributions observe is called with
MetaTeams ==
    { <<"mathstral:7b">>, <<"mathstral:7b", "codegemma:2b">> }

Draw(mean, std, synergy, contributions) ==
    [mean |-> mean, std |-> std, synergy |-> synergy, contributions |-> contributions]

MetaDraws ==
    { Draw(650, 120, 900, <<>>),        \* low performance, high variance, low synergy
      Draw(800, 70, 1000, <<>>),        \* conflict by variance, no correction applies
      Draw(900, 30, 1150, <<>>),        \* success pattern
      Draw(4000, 0, 1000, <<>>),        \* mean far above 1
      Draw(0 - 2000, 0, 1000, <<>>),    \* mean far below 0
      Draw(750, 30, 1000, <<900, 600>>) \* conflict by unbalanced contributions
    }

\* seconds between two calls
TimeSteps == {2, 5}

TeamTask(reg, ids) ==
    Task([i \in 1..Len(ids) |-> reg[ids[i]].domain], 500, 500, 500, 500)

Intervened(reg, agent, reg2, agent2) ==
    \/ reg2 # reg
    \/ agent2.intervention_count # agent.intervention_count
    \/ agent2.last_intervention_time # agent.last_intervention_time
    \/ agent2.intervention_history # agent.intervention_history

Observe(ids, draw, dt) ==
    /\ steps < MaxObs
    /\ LET now == clock + dt
           mc == [mean_performance |-> draw.mean, std_performance |-> draw.std,
                  synergy |-> draw.synergy]
           task == TeamTask(experts, ids)
       IN  \E r \in {observe(variant, experts, meta_agent, ids, task, mc, draw.contributions, now)} :
           \E conflict \in {_detect_conflict(r.agent.observations[Len(r.agent.observations)])} :
           \E changed \in {Intervened(experts, meta_agent, r.reg, r.agent)} :
              /\ clock' = now
              /\ experts' = r.reg
              /\ meta_agent' = r.agent
              /\ last' = [op |-> "observe", experts |-> ids, mean_perf |-> draw.mean,
                          conflict |-> conflict, intervened |-> changed,
                          raised |-> r.raised, reputation_before |-> meta_agent.reputation,
                          now |-> now, std_perf |-> draw.std,
                          before |-> [experts |-> experts, meta_agent |-> meta_agent]]
              /\ observed' = Append(observed, [time |-> now, conflict |-> conflict,
                                               intervened |-> changed])
    /\ steps' = steps + 1
    /\ UNCHANGED <<variant, roster, classifier, monte_carlo, router, total_queries,
                   successful_routings, routing_history, threads, returned>>

InitMeta == \E v \in Variants : Construct(v, "default")
NextMeta == \E ids \in MetaTeams, draw \in MetaDraws, dt \in TimeSteps : Observe(ids, draw, dt)
SpecMeta == InitMeta /\ [][NextMeta]_vars

\* C1: of two observations that both satisfy the conflict predicate and
\* arrive less than 5 seconds apart, at most one changes expert parameters,
\* the intervention counter, the last-intervention time or the log.
C1_OneInterventionPerWindow ==
    \A i, j \in 1..Len(observed) :
        /\ i < j
        /\ observed[i].conflict /\ observed[j].conflict
        /\ observed[j].time - observed[i].time < min_intervention_interval
        => ~(observed[i].intervened /\ observed[j].intervened)

\* C1 witness: a conflict that intervened, followed within 5 seconds by a
\* conflict that did not.
C1_Witness ==
    \E i, j \in 1..Len(observed) :
        /\ i < j
        /\ observed[i].conflict /\ observed[j].conflict
        /\ observed[j].time - observed[i].time < min_intervention_interval
        /\ observed[i].intervened /\ ~observed[j].intervened

\* C8: every reputation lies in [0,1]; an entry that exists stays, and an
\* observe call moves it only by its delta from the value it had (it is
\* never removed and never restarted from the default).
C8_ReputationRange ==
    /\ \A e \in DOMAIN meta_agent.reputation :
          0 <= meta_agent.reputation[e] /\ meta_agent.reputation[e] <= 1000
    /\ last.op = "observe" =>
          \A e \in DOMAIN last.reputation_before :
             /\ e \in DOMAIN meta_agent.reputation
             /\ meta_agent.reputation[e] =
                  IF e \in Range(last.experts)
                  THEN Clip(last.reputation_before[e] + (last.mean_perf - 700) \div 5, 0, 1000)
                  ELSE last.reputation_before[e]

\* C8 witness: reputations pinned at both ends of the range by clipping
C8_Witness ==
    /\ last.op = "observe"
    /\ \E e \in DOMAIN meta_agent.reputation : meta_agent.reputation[e] = 1000
    /\ \E e \in DOMAIN meta_agent.reputation : meta_agent.reputation[e] = 0
    /\ \E e \in DOMAIN last.reputation_before : e \in Range(last.experts)

(***************************************************************************)
(* The router on synthetic tasks: select_experts on the ranked candidates  *)
(* followed by the simulation, interleaved with the calls that move the    *)
(* registry and the router's memory                                        *)
(***************************************************************************)
MaxRouterSteps == 3

SyntheticTasks ==
    { Task(<<"mathematics">>, 900, 500, 500, 500),
      Task(<<"programming">>, 900, 500, 500, 500),
      Task(<<"mathematics", "programming">>, 900, 500, 500, 700),
      Task(<<"language", "mathematics", "programming">>, 900, 500, 500, 700),
      Task(<<"mathematics", "programming">>, 100, 100, 100, 100) }

\* the tasks whose outcomes are recorded
RecordedTasks ==
    { Task(<<"mathematics">>, 900, 500, 500, 500),
      Task(<<"mathematics", "programming">>, 900, 500, 500, 700) }

RouterDraw == Draw(850, 40, 0, <<>>)
Performances == {600, 950}

\* the comparison taken as >= 1
RoutingTypeAtLeastOne(ids) == IF Len(ids) >= 1 THEN "MULTI" ELSE "SINGLE"

RoutingType(ids) == IF Len(ids) > 1 THEN "MULTI" ELSE "SINGLE"

Select(task) ==
    /\ steps < MaxRouterSteps
    /\ LET failed == RelevantRaises(variant, experts, task)
           candidates == IF failed THEN <<>> ELSE _get_relevant_experts(variant, experts, task)
       IN  \E r \in {IF failed THEN Raised("KeyError")
                     ELSE LookupSelected(experts, select_experts(variant, experts,
                                         router.performance_memory, candidates, task))} :
           \E sim \in {simulate_collaboration(variant, experts, monte_carlo, r.ids, task, RouterDraw)} :
           IF r.raised # "none"
           THEN /\ last' = [op |-> "select", task |-> task, candidates |-> candidates,
                            raised |-> r.raised, ids |-> <<>>, type |-> "none", synergy |-> 0,
                            relevant_raised |-> failed]
                /\ UNCHANGED monte_carlo
           ELSE /\ last' = [op |-> "select", task |-> task, candidates |-> candidates,
                            raised |-> "none", ids |-> r.ids, type |-> RoutingType(r.ids),
                            synergy |-> McGet(sim.result, "synergy", 1000),
                            relevant_raised |-> FALSE]
                /\ monte_carlo' = sim.cache
    /\ steps' = steps + 1
    /\ UNCHANGED <<variant, roster, experts, classifier, router, meta_agent, total_queries,
                   successful_routings, routing_history, clock, threads, returned, observed>>

\* IntelligentRouter.update_performance_memory(expert_id, task, performance)
update_performance_memory(v, rt, id, task, performance) ==
    [performance_memory |-> MemoryAfter(rt.performance_memory, id, task, performance),
     task_history |-> TaskHistoryAfter(v, rt.task_history, id, task, performance),
     expert_assignments |-> AssignmentsAfter(rt.expert_assignments, id)]

UpdateMemory(id, task, performance) ==
    /\ steps < MaxRouterSteps
    /\ router' = update_performance_memory(variant, router, id, task, performance)
    /\ last' = [op |-> "update_performance_memory", expert |-> id]
    /\ steps' = steps + 1
    /\ UNCHANGED <<variant, roster, experts, classifier, monte_carlo, meta_agent, total_queries,
                   successful_routings, routing_history, clock, threads, returned, observed>>

UpdateExpert(id, task, performance) ==
    /\ steps < MaxRouterSteps
    /\ experts' = [experts EXCEPT ![id] = update_performance(variant, @, performance,
                                                              Complexity(variant, task))]
    /\ last' = [op |-> "update_performance", expert |-> id]
    /\ steps' = steps + 1
    /\ UNCHANGED <<variant, roster, classifier, monte_carlo, router, meta_agent, total_queries,
                   successful_routings, routing_history, clock, threads, returned, observed>>

InitRouter == \E v \in Variants, r \in Rosters : Construct(v, r)
NextRouter ==
    \/ \E task \in SyntheticTasks : Select(task)
    \/ \E id \in ExpertIdSet, task \in RecordedTasks, p \in Performances :
          UpdateMemory(id, task, p)
    \/ \E id \in ExpertIdSet : UpdateExpert(id, CHOOSE t \in RecordedTasks : TRUE, 950)
SpecRouter == InitRouter /\ [][NextRouter]_vars

\* C3: for a task with exactly one required domain, in every registry
\* state, select returns exactly one id: the expert the domain mapping
\* assigns to that domain.
C3_SingleDomainMapped ==
    (last.op = "select" /\ Len(last.task.required_domains) = 1)
    => /\ last.raised = "none"
       /\ last.ids = <<domain_mapping[last.task.required_domains[1]]>>

\* C3 witness: a single-domain selection made after the registry and the
\* performance memory have moved, on a roster where another expert
\* carries the same domain tag
C3_Witness ==
    /\ last.op = "select" /\ Len(last.task.required_domains) = 1
    /\ experts # InitialExperts(variant, roster)
    /\ DOMAIN router.performance_memory # {}
    /\ last.ids = <<domain_mapping[last.task.required_domains[1]]>>

TopThree(candidates) == SubSeq(candidates, 1, Min(3, Len(candidates)))

\* C4: for a task with at least 2 required domains and complexity > 0.40,
\* select returns 1 or 2 ids; the first is the highest-scoring of the top 3
\* candidates; when 2 are returned their domains differ.
C4_CollaborationPair ==
    (/\ last.op = "select"
     /\ Len(last.task.required_domains) >= 2
     /\ Complexity(variant, last.task) > 400)
    => /\ last.raised = "none"
       /\ Len(last.ids) \in {1, 2}
       /\ last.ids[1] \in Range(TopThree(last.candidates))
       /\ \A c \in Range(TopThree(last.candidates)) :
             _calculate_expert_score(router.performance_memory, c, experts[c], last.task)
             <= _calculate_expert_score(router.performance_memory, last.ids[1],
                                        experts[last.ids[1]], last.task)
       /\ Len(last.ids) = 2 => experts[last.ids[1]].domain # experts[last.ids[2]].domain

\* the same statement on the experts that carry a load attribute
C4_CollaborationPairNueva == variant = "nueva" => C4_CollaborationPair

\* C5: a synthetic task with two required domains mapped to two different
\* experts and complexity > 0.40 (domain_breadth = 0.9) is routed as MULTI:
\* two experts with distinct domains, and the simulation reports synergy > 0.
C5_SyntheticMulti ==
    (/\ last.op = "select"
     /\ roster = "default"
     /\ last.task.required_domains = <<"mathematics", "programming">>
     /\ last.task.domain_breadth = 900)
    => /\ last.raised = "none"
       /\ last.type = "MULTI"
       /\ Len(last.ids) = 2
       /\ experts[last.ids[1]].domain # experts[last.ids[2]].domain
       /\ last.synergy > 0

\* the same scenario on the experts that carry a load attribute
C5_SyntheticMultiNueva == variant = "nueva" => C5_SyntheticMulti

C4_ReorderedByScore ==
    /\ last.op = "select" /\ last.raised = "none" /\ Len(last.ids) = 2
    /\ last.ids[1] # last.candidates[1]

Count(id) ==
    IF id \in DOMAIN router.expert_assignments THEN router.expert_assignments[id] ELSE 0

TotalAssignments == SumOver([id \in ExpertIdSet |-> Count(id)], ExpertIdSet)

\* C7: balance_status reports balanced = false whenever some registered
\* expert's share of the assignments exceeds another registered expert's
\* share by at least 0.20, a never-assigned expert having share 0.
C7_UnbalancedReported ==
    (/\ TotalAssignments > 0
     /\ \E a, b \in ExpertIdSet : 5 * (Count(a) - Count(b)) >= TotalAssignments)
    => ~IsBalanced(router.expert_assignments)

(***************************************************************************)
(* AlphaHyperionSystem.route_query, statement by statement.  A call is a   *)
(* frame: its position pc, its inputs (the query, the outcome of the       *)
(* random trials, the outcome of the backend call) and its local values.   *)
(* The shared objects are the record sys.  RouteStep runs the statements   *)
(* up to the next point at which another thread of the server can run.     *)
(***************************************************************************)
\* deque(maxlen=500) of the routing history, scaled down
HistoryCap == 2

Sys ==
    [experts |-> experts, classifier |-> classifier, monte_carlo |-> monte_carlo,
     router |-> router, meta_agent |-> meta_agent, total_queries |-> total_queries,
     successful_routings |-> successful_routings, routing_history |-> routing_history]

Install(s) ==
    /\ experts' = s.experts
    /\ classifier' = s.classifier
    /\ monte_carlo' = s.monte_carlo
    /\ router' = s.router
    /\ meta_agent' = s.meta_agent
    /\ total_queries' = s.total_queries
    /\ successful_routings' = s.successful_routings
    /\ routing_history' = s.routing_history

\* what the backend call can do: nueva sleeps 1 ms; hyperion calls
\* _query_ollama, which answers or catches the client's exception
BackendOutcomes(v) == IF v = "nueva" THEN {"simulated"} ELSE {"answer", "error"}

NewFrame(q, draw, backend) ==
    [pc |-> "start", query |-> q, draw |-> draw, backend |-> backend,
     classified |-> [domains |-> <<>>, complexity |-> 0, reasoning |-> ""],
     task |-> BuildTask(<<>>, 0), candidates |-> <<>>, ids |-> <<>>,
     mc |-> [mean_performance |-> 0], k |-> 1, reg |-> 0, raised |-> "none",
     result |-> [type |-> "none"]]

_is_routing_successful(reg, task, ids) ==
    /\ task.required_domains # <<>>
    /\ ids # <<>>
    /\ reg[ids[1]].domain \in Range(task.required_domains)

\* get_success_rate(), in thousandths of a percent
get_success_rate(s) ==
    IF s.total_queries = 0 THEN 100000
    ELSE (s.successful_routings * 100000) \div s.total_queries

\* lines 69-84: task, candidates, selection, simulation
StepSelect(v, s, fr, classified) ==
    LET task == BuildTask(classified.domains, classified.complexity)
        failed == RelevantRaises(v, s.experts, task)
        candidates == IF failed THEN <<>> ELSE _get_relevant_experts(v, s.experts, task)
        sel == IF failed THEN Raised("KeyError")
               ELSE LookupSelected(s.experts, select_experts(v, s.experts,
                                      s.router.performance_memory, candidates, task))
        sim == simulate_collaboration(v, s.experts, s.monte_carlo, sel.ids, task, fr.draw)
    IN  IF sel.raised # "none"
        THEN [sys |-> s,
              fr |-> [fr EXCEPT !.pc = "raised", !.raised = sel.raised,
                                !.classified = classified,
                                !.task = task, !.candidates = candidates]]
        ELSE [sys |-> [s EXCEPT !.monte_carlo = sim.cache],
              fr |-> [fr EXCEPT !.pc = "total_read", !.classified = classified, !.task = task,
                                !.candidates = candidates, !.ids = sel.ids, !.mc = sim.result]]

\* line 68: the classification, then the rest up to the simulation
StepStart(v, s, fr) ==
    LET c == classify_fast(v, s.classifier, fr.query)
    IN  StepSelect(v, [s EXCEPT !.classifier = c.classifier], fr, c.result)

\* self.total_queries += 1: the read
StepTotalRead(v, s, fr) ==
    [sys |-> s, fr |-> [fr EXCEPT !.pc = "total_write", !.reg = s.total_queries]]

\* every decision taken as successful
StepTotalWriteAlways(v, s, fr) ==
    [sys |-> [s EXCEPT !.total_queries = fr.reg + 1], fr |-> [fr EXCEPT !.pc = "success_read"]]

\* self.total_queries += 1: the write, then the test of _is_routing_successful
StepTotalWrite(v, s, fr) ==
    [sys |-> [s EXCEPT !.total_queries = fr.reg + 1],
     fr |-> [fr EXCEPT !.pc = IF _is_routing_successful(s.experts, fr.task, fr.ids)
                              THEN "success_read" ELSE "update"]]

StepSuccessRead(v, s, fr) ==
    [sys |-> s, fr |-> [fr EXCEPT !.pc = "success_write", !.reg = s.successful_routings]]

StepSuccessWrite(v, s, fr) ==
    [sys |-> [s EXCEPT !.successful_routings = fr.reg + 1], fr |-> [fr EXCEPT !.pc = "update"]]

\* a loop that also lets every expert it does not update rest
StepUpdateResting(v, s, fr) ==
    LET id == fr.ids[fr.k]
        perf == fr.mc.mean_performance
        e == update_performance(v, s.experts[id], perf, Complexity(v, fr.task))
        rt == s.router
    IN  [sys |-> [s EXCEPT !.experts = [o \in DOMAIN s.experts |->
                                  IF o = id THEN e
                                  ELSE IF o \in Range(fr.ids) THEN s.experts[o]
                                  ELSE [s.experts[o] EXCEPT
                                           !.availability = Min(1000, @ + 10),
                                           !.fatigue = Max(0, @ - 10)]],
                           !.router = [rt EXCEPT
                               !.performance_memory = MemoryAfter(@, id, fr.task, perf),
                               !.task_history = TaskHistoryAfter(v, @, id, fr.task, perf)]],
         fr |-> [fr EXCEPT !.pc = "assign_write",
                           !.reg = IF id \in DOMAIN rt.expert_assignments
                                   THEN rt.expert_assignments[id] ELSE 0]]

\* a loop over the selected experts that updates nothing
StepUpdateSkipped(v, s, fr) == [sys |-> s, fr |-> [fr EXCEPT !.pc = "observe"]]

\* one turn of the loop over the selected experts, up to the read of
\* self.expert_assignments[expert_id] += 1
StepUpdate(v, s, fr) ==
    LET id == fr.ids[fr.k]
        perf == fr.mc.mean_performance
        e == update_performance(v, s.experts[id], perf, Complexity(v, fr.task))
        rt == s.router
    IN  [sys |-> [s EXCEPT !.experts = [@ EXCEPT ![id] = e],
                           !.router = [rt EXCEPT
                               !.performance_memory = MemoryAfter(@, id, fr.task, perf),
                               !.task_history = TaskHistoryAfter(v, @, id, fr.task, perf)]],
         fr |-> [fr EXCEPT !.pc = "assign_write",
                           !.reg = IF id \in DOMAIN rt.expert_assignments
                                   THEN rt.expert_assignments[id] ELSE 0]]

\* self.expert_assignments[expert_id] += 1: the write
StepAssignWrite(v, s, fr) ==
    LET id == fr.ids[fr.k]
        asg == s.router.expert_assignments
    IN  [sys |-> [s EXCEPT !.router.expert_assignments =
                     [k \in DOMAIN asg \cup {id} |-> IF k = id THEN fr.reg + 1 ELSE asg[k]]],
         fr |-> [fr EXCEPT !.k = @ + 1,
                           !.pc = IF fr.k + 1 > Len(fr.ids) THEN "observe" ELSE "update"]]

\* self.meta_agent.observe(selected_experts, task, mc_results)
StepObserve(v, s, fr, now) ==
    LET o == observe(v, s.experts, s.meta_agent, fr.ids, fr.task, fr.mc, <<>>, now)
    IN  [sys |-> [s EXCEPT !.experts = o.reg, !.meta_agent = o.agent],
         fr |-> IF o.raised # "none" THEN [fr EXCEPT !.pc = "raised", !.raised = o.raised]
                ELSE [fr EXCEPT !.pc = "backend"]]

\* a backend call whose failure leaves route_query as an exception
StepBackendRaising(v, s, fr) ==
    IF fr.backend = "error"
    THEN [sys |-> s, fr |-> [fr EXCEPT !.pc = "raised", !.raised = "Exception"]]
    ELSE LET result == [query |-> fr.query, experts |-> fr.ids, primary_expert |-> fr.ids[1],
                        domains |-> fr.classified.domains,
                        complexity |-> fr.classified.complexity,
                        type |-> IF Len(fr.ids) > 1 THEN "MULTI" ELSE "SINGLE",
                        reasoning |-> fr.classified.reasoning,
                        expected_performance |-> fr.mc.mean_performance,
                        synergy |-> McGet(fr.mc, "synergy", 1000),
                        success_rate |-> IF s.total_queries = 0 THEN 100000
                                         ELSE (s.successful_routings * 100000) \div s.total_queries,
                        response |-> fr.backend]
         IN  [sys |-> [s EXCEPT !.routing_history = DequeAppend(@, result, HistoryCap)],
              fr |-> [fr EXCEPT !.pc = "done", !.result = result]]

\* the backend call returns; the result is built and appended
StepBackend(v, s, fr) ==
    LET result == [query |-> fr.query, experts |-> fr.ids, primary_expert |-> fr.ids[1],
                   domains |-> fr.classified.domains,
                   complexity |-> fr.classified.complexity,
                   type |-> RoutingType(fr.ids),
                   reasoning |-> fr.classified.reasoning,
                   expected_performance |-> fr.mc.mean_performance,
                   synergy |-> McGet(fr.mc, "synergy", 1000),
                   success_rate |-> get_success_rate(s),
                   response |-> fr.backend]
    IN  [sys |-> [s EXCEPT !.routing_history = DequeAppend(@, result, HistoryCap)],
         fr |-> [fr EXCEPT !.pc = "done", !.result = result]]

Finished(fr) == fr.pc \in {"done", "raised"}

RouteStep(v, s, fr, now) ==
    CASE fr.pc = "start" -> StepStart(v, s, fr)
      [] fr.pc = "total_read" -> StepTotalRead(v, s, fr)
      [] fr.pc = "total_write" -> StepTotalWrite(v, s, fr)
      [] fr.pc = "success_read" -> StepSuccessRead(v, s, fr)
      [] fr.pc = "success_write" -> StepSuccessWrite(v, s, fr)
      [] fr.pc = "update" -> StepUpdate(v, s, fr)
      [] fr.pc = "assign_write" -> StepAssignWrite(v, s, fr)
      [] fr.pc = "observe" -> StepObserve(v, s, fr, now)
      [] fr.pc = "backend" -> StepBackend(v, s, fr)
      [] OTHER -> [sys |-> s, fr |-> fr]

RECURSIVE RunToEnd(_, _, _, _)
\* a call that runs alone, from its first statement to its return
RunToEnd(v, s, fr, now) ==
    IF Finished(fr) THEN [sys |-> s, fr |-> fr]
    ELSE LET n == RouteStep(v, s, fr, now) IN RunToEnd(v, n.sys, n.fr, now)

route_query(v, s, q, draw, backend, now) == RunToEnd(v, s, NewFrame(q, draw, backend), now)

(***************************************************************************)
(* The system driven by one caller: route after route                      *)
(***************************************************************************)
MaxRoutes == 3

Queries == {QCuanto, QCrear, <<"función", "integral", "ensayo", "pad16">>}

RouteDraws == {Draw(650, 120, 0, <<>>), Draw(900, 30, 0, <<>>)}

Route(q, draw, backend, dt) ==
    /\ steps < MaxRoutes
    /\ \E r \in {route_query(variant, Sys, q, draw, backend, clock + dt)} :
           /\ Install(r.sys)
           /\ clock' = clock + dt
           /\ last' = [op |-> "route", query |-> q, classified |-> r.fr.classified,
                       task |-> r.fr.task, raised |-> r.fr.raised, result |-> r.fr.result,
                       before |-> Sys, draw |-> draw, backend |-> backend, now |-> clock + dt]
    /\ steps' = steps + 1
    /\ UNCHANGED <<variant, roster, threads, returned, observed>>

Init == \E v \in Variants : Construct(v, "default")
Next ==
    \E q \in Queries, draw \in RouteDraws, dt \in TimeSteps :
        \E backend \in BackendOutcomes(variant) : Route(q, draw, backend, dt)
Spec == Init /\ [][Next]_vars

\* C6: a query to which the classifier assigns exactly one domain d is
\* routed with domains = [d], type SINGLE and primary expert the expert
\* mapped to d, whatever was routed before; the first example query gives
\* mathematics and the second gives programming.
C6_SingleDomainRoute ==
    last.op = "route" =>
       /\ Len(last.classified.domains) = 1 =>
             /\ last.raised = "none"
             /\ last.result.domains = last.classified.domains
             /\ last.result.type = "SINGLE"
             /\ last.result.primary_expert = domain_mapping[last.classified.domains[1]]
       /\ last.query = QCuanto => last.classified.domains = <<"mathematics">>
       /\ last.query = QCrear => last.classified.domains = <<"programming">>

\* C6 witness: the first example routed to the mathematics expert after
\* other queries were routed and the experts moved
C6_Witness ==
    /\ last.op = "route" /\ last.query = QCuanto
    /\ last.result.primary_expert = "mathstral:7b"
    /\ last.before.total_queries >= 2
    /\ \E i \in 1..Len(last.before.routing_history) :
          last.before.routing_history[i].query # QCuanto
    /\ last.before.experts # InitialExperts(variant, roster)

(***************************************************************************)
(* The system behind the /route endpoint of api_local.py: a plain "def"    *)
(* endpoint, which the server runs on a pool of threads, calling           *)
(* route_query of one shared hyperion system with no lock.                 *)
(***************************************************************************)
MaxRequests == 2

ServedQueries == {QCuanto, QCrear}
ServedDraw == Draw(900, 30, 0, <<>>)

\* a request arrives and is handed to a thread of the pool
Arrive(q, backend, dt) ==
    /\ Len(threads) < MaxRequests
    /\ threads' = Append(threads, NewFrame(q, ServedDraw, backend))
    /\ clock' = clock + dt
    /\ last' = [op |-> "arrive", thread |-> Len(threads) + 1]
    /\ UNCHANGED <<variant, roster, experts, classifier, monte_carlo, router, meta_agent,
                   total_queries, successful_routings, routing_history, returned, observed,
                   steps>>

\* the thread of request i runs up to its next switch point
Run(i) ==
    /\ ~Finished(threads[i])
    /\ \E n \in {RouteStep(variant, Sys, threads[i], clock)} :
          /\ Install(n.sys)
          /\ threads' = [threads EXCEPT ![i] = n.fr]
    /\ last' = [op |-> "run", thread |-> i]
    /\ UNCHANGED <<variant, roster, clock, returned, observed, steps>>

InitConc == Construct("hyperion", "default")
NextConc ==
    \/ \E q \in ServedQueries, backend \in BackendOutcomes(variant), dt \in TimeSteps :
          Arrive(q, backend, dt)
    \/ \E i \in 1..Len(threads) : Run(i)
SpecConc == InitConc /\ [][NextConc]_vars

InProgress(fr) == fr.pc \notin {"start", "done", "raised"}

Decisions(id) == Cardinality({i \in 1..Len(threads) : id \in Range(threads[i].ids)})

\* after the requests complete, the counters equal the numbers of requests
\* and of decisions
C2_NoLostUpdate ==
    (\A i \in 1..Len(threads) : threads[i].pc = "done")
    => /\ total_queries = Len(threads)
       /\ \A id \in ExpertIdSet : Count(id) = Decisions(id)

\* C2: under concurrent requests to /route the route executions are
\* serialized: no two route_query calls are in progress at once, and after
\* k requests complete total_queries = k and every expert's assignment
\* counter equals the number of decisions that included the expert.
C2_Serialized ==
    /\ Cardinality({i \in 1..Len(threads) : InProgress(threads[i])}) <= 1
    /\ C2_NoLostUpdate

(***************************************************************************)
(* The simulation engine alone: any sequence of simulate_collaboration     *)
(* calls, between which the experts wear and their collaboration history   *)
(* is corrected                                                            *)
(***************************************************************************)
MaxSimCalls == 5

\* the (experts, task) pairs the engine is called with
SimCalls ==
    { [ids |-> <<"mathstral:7b">>, task |-> Task(<<"mathematics">>, 900, 500, 500, 500)],
      [ids |-> <<"codegemma:2b">>, task |-> Task(<<"programming">>, 900, 500, 500, 500)],
      [ids |-> <<"mathstral:7b", "codegemma:2b">>,
       task |-> Task(<<"mathematics", "programming">>, 900, 500, 500, 700)],
      [ids |-> <<"codegemma:2b", "mathstral:7b">>,
       task |-> Task(<<"mathematics", "programming">>, 100, 100, 100, 100)] }

SimDraws == {Draw(650, 120, 0, <<>>), Draw(900, 30, 0, <<>>)}

Simulate(call, draw) ==
    /\ steps < MaxSimCalls
    /\ \E r \in {simulate_collaboration(variant, experts, monte_carlo, call.ids, call.task, draw)} :
          /\ monte_carlo' = r.cache
          /\ last' = [op |-> "simulate", key |-> SimCacheKey(variant, call.ids, call.task),
                      result |-> r.result,
                      fresh |-> SimulateFresh(variant, experts, call.ids, call.task, draw),
                      before |-> monte_carlo]
    /\ steps' = steps + 1
    /\ UNCHANGED <<variant, roster, experts, classifier, router, meta_agent, total_queries,
                   successful_routings, routing_history, clock, threads, returned, observed>>

\* what happens to the experts between two simulations: an update after a
\* decision, and (nueva) the supervisor's correction of a pair's history
Wear(ids) ==
    /\ steps < MaxSimCalls
    /\ LET worn == [id \in ExpertIdSet |->
                      IF id \in Range(ids) THEN update_performance(variant, experts[id], 600, 700)
                      ELSE experts[id]]
       IN  experts' = IF HasAttr(worn[ids[1]], "collaboration_history") /\ Len(ids) > 1
                      THEN CollabDecay(worn, ids, PairSeq(ids)).reg
                      ELSE worn
    /\ last' = [op |-> "wear"]
    /\ steps' = steps + 1
    /\ UNCHANGED <<variant, roster, classifier, monte_carlo, router, meta_agent, total_queries,
                   successful_routings, routing_history, clock, threads, returned, observed>>

InitSim == \E v \in Variants : Construct(v, "default")
NextSim ==
    \/ \E call \in SimCalls, draw \in SimDraws : Simulate(call, draw)
    \/ Wear(<<"mathstral:7b", "codegemma:2b">>)
SpecSim == InitSim /\ [][NextSim]_vars

\* C11: the simulation cache never holds more than its capacity (500,
\* scaled) and no entry is evicted or overwritten; a simulate call whose
\* key is already cached returns the stored result unchanged, also when
\* the experts changed after it was stored.
C11_SimulationCache ==
    /\ Cardinality(DOMAIN monte_carlo) <= SimCacheLimit
    /\ last.op = "simulate" =>
          /\ \A k \in DOMAIN last.before :
                k \in DOMAIN monte_carlo /\ monte_carlo[k] = last.before[k]
          /\ last.key \in DOMAIN last.before => last.result = last.before[last.key]

\* C11 witness: a hit on a full cache whose stored result differs from
\* what the trials on the changed experts would give now
C11_Witness ==
    /\ last.op = "simulate"
    /\ last.key \in DOMAIN last.before
    /\ last.result = last.before[last.key]
    /\ last.result.synergy # last.fresh.synergy
    /\ experts # InitialExperts(variant, roster)
    /\ Cardinality(DOMAIN monte_carlo) = SimCacheLimit

\* a miss on a full cache: the result is returned and not stored
C11_RejectedWhenFull ==
    /\ last.op = "simulate"
    /\ last.key \notin DOMAIN last.before
    /\ Cardinality(DOMAIN last.before) = SimCacheLimit
    /\ monte_carlo = last.before

\* C12: when the backend invocation fails, route does not raise and
\* returns a normal Result with an error-tagged response; experts,
\* performance memory, supervisor, counters and the history append are
\* what a successful backend call would have left.
C12_BackendFailureCaptured ==
    (last.op = "route" /\ last.backend = "error")
    => LET ok == route_query(variant, last.before, last.query, last.draw, "answer", last.now)
       IN  /\ last.raised = "none"
           /\ last.result.response = "error"
           /\ last.result = [ok.fr.result EXCEPT !.response = "error"]
           /\ experts = ok.sys.experts
           /\ router = ok.sys.router
           /\ meta_agent = ok.sys.meta_agent
           /\ total_queries = ok.sys.total_queries
           /\ successful_routings = ok.sys.successful_routings
           /\ monte_carlo = ok.sys.monte_carlo
           /\ Len(routing_history) = Len(ok.sys.routing_history)
           /\ routing_history[Len(routing_history)] = last.result
           /\ SubSeq(routing_history, 1, Len(routing_history) - 1)
                = SubSeq(ok.sys.routing_history, 1, Len(routing_history) - 1)

\* C12 witness: a failed backend call on a route that was counted,
\* recorded and observed, after earlier routes
C12_Witness ==
    /\ last.op = "route" /\ last.backend = "error"
    /\ last.result.response = "error"
    /\ last.before.total_queries >= 1
    /\ total_queries = last.before.total_queries + 1
    /\ meta_agent # last.before.meta_agent
    /\ router # last.before.router

(***************************************************************************)
(* Construction with any roster the constructor accepts, followed by the   *)
(* candidate, selection and simulation steps of a route on synthetic tasks *)
(***************************************************************************)
RosterTasks ==
    SyntheticTasks \cup { Task(<<"physics">>, 900, 500, 500, 500),
                          Task(<<"language", "programming">>, 900, 500, 500, 700) }

InitRoster == \E v \in Variants, r \in CustomRosters : Construct(v, r)
NextRoster == \E task \in RosterTasks : Select(task)
SpecRoster == InitRoster /\ [][NextRoster]_vars

\* C13: a system that was constructed has every domain of the
\* domain-to-expert mapping resolving to a registered expert (construction
\* fails otherwise).
C13_MappingValidated ==
    \A d \in DOMAIN domain_mapping : domain_mapping[d] \in DOMAIN experts

\* the same statement for the rosters that hold every mapped id
C13_MappingValidatedFullRosters == roster \in Rosters => C13_MappingValidated

NoneResolves(task) ==
    \A i \in 1..Len(task.required_domains) :
        LET d == task.required_domains[i]
        IN  d \notin DOMAIN domain_mapping \/ domain_mapping[d] \notin DOMAIN experts

\* C14: relevant_experts never raises and returns a non-empty list of
\* registered expert ids; when no required domain resolves through the
\* mapping to a registered expert it returns one registered expert and the
\* select and simulate steps that follow complete without error.
C14_CandidatesRegistered ==
    last.op = "select" =>
       /\ ~last.relevant_raised
       /\ last.candidates # <<>>
       /\ \A i \in 1..Len(last.candidates) : last.candidates[i] \in DOMAIN experts
       /\ NoneResolves(last.task) => Len(last.candidates) = 1 /\ last.raised = "none"

\* the same statement for the rosters that hold every mapped id
C14_CandidatesRegisteredFullRosters == roster \in Rosters => C14_CandidatesRegistered

\* the fallback taken on a roster that holds every mapped id
C14_FallbackTaken ==
    /\ last.op = "select" /\ roster \in Rosters /\ NoneResolves(last.task)
    /\ last.ids = <<ExpertIds[1]>>

\* C15: when observe detects a conflict less than 5 seconds after the
\* last intervention, the intervention is a no-op: no expert's
\* collaboration multipliers, specialization_score or availability change,
\* and the intervention counter, the last-intervention time and the
\* intervention log are unchanged.
C15_SkippedInterventionNoOp ==
    (/\ last.op = "observe"
     /\ last.conflict
     /\ last.now - last.before.meta_agent.last_intervention_time < min_intervention_interval)
    => /\ experts = last.before.experts
       /\ meta_agent.intervention_count = last.before.meta_agent.intervention_count
       /\ meta_agent.last_intervention_time = last.before.meta_agent.last_intervention_time
       /\ meta_agent.intervention_history = last.before.meta_agent.intervention_history
       /\ last.raised = "none"

\* C15 witness: a conflict with high variance and low performance observed
\* 2 seconds after an intervention: it is recorded and changes nothing else
C15_Witness ==
    /\ last.op = "observe" /\ last.conflict
    /\ last.before.meta_agent.intervention_count >= 1
    /\ last.now - last.before.meta_agent.last_intervention_time < min_intervention_interval
    /\ last.std_perf > 100 /\ last.mean_perf < 780
    /\ experts = last.before.experts
    /\ meta_agent.intervention_count = last.before.meta_agent.intervention_count
    /\ meta_agent.reputation # last.before.meta_agent.reputation

\* C16: the decision history holds at most its capacity (500, scaled);
\* a Result appended to a full history drops the oldest one, so the
\* history is the most recent min(n, capacity) Results in order.
C16_HistoryMostRecent ==
    /\ Len(routing_history) = Min(total_queries, HistoryCap)
    /\ (last.op = "route" /\ last.raised = "none") =>
          LET all == Append(last.before.routing_history, last.result)
          IN  routing_history = SubSeq(all, Len(all) - Min(Len(all), HistoryCap) + 1, Len(all))

\* C16 witness: a Result appended to a full history of other Results
C16_Witness ==
    /\ last.op = "route"
    /\ Len(last.before.routing_history) = HistoryCap
    /\ routing_history[HistoryCap] = last.result
    /\ routing_history[1] = last.before.routing_history[2]
    /\ last.before.routing_history[1] # last.before.routing_history[2]
    /\ last.before.routing_history[1] # last.result

(***************************************************************************)
(* Route after route on the roster in which codegemma:2b carries the       *)
(* mathematics tag, where a programming query is decided unsuccessfully    *)
(***************************************************************************)
InitShared == \E v \in Variants : Construct(v, "shared")
SpecShared == InitShared /\ [][Next]_vars

\* C17: the success rate is successful/total (reported in percent), total
\* counts every decision, successful counts exactly the decisions whose
\* primary expert's domain is among the task's required domains,
\* successful never exceeds total, and the rate inside a Result already
\* counts that decision.
C17_SuccessRate ==
    /\ successful_routings <= total_queries
    /\ get_success_rate(Sys) = IF total_queries = 0 THEN 100000
                               ELSE (successful_routings * 100000) \div total_queries
    /\ (last.op = "route" /\ last.raised = "none") =>
          LET hit == last.before.experts[last.result.primary_expert].domain
                        \in Range(last.task.required_domains)
          IN  /\ total_queries = last.before.total_queries + 1
              /\ successful_routings
                   = last.before.successful_routings + (IF hit THEN 1 ELSE 0)
              /\ last.result.success_rate = (successful_routings * 100000) \div total_queries

\* C17 witness: an unsuccessful decision after a successful one; the rate
\* in its Result is one half
C17_Witness ==
    /\ last.op = "route"
    /\ total_queries = 2 /\ successful_routings = 1
    /\ last.before.successful_routings = 1
    /\ last.result.success_rate = 50000

\* C18: with the default roster and domain mapping every decision is
\* successful: successful_routings = total_queries, the primary expert of
\* each decision carrying one of the task's required domains.
C18_FullPrecision ==
    /\ successful_routings = total_queries
    /\ (last.op = "route" /\ last.raised = "none") =>
          /\ created_domain(last.result.primary_expert) \in Range(last.task.required_domains)
          /\ total_queries = last.before.total_queries + 1

\* C18 witness: the last of the decisions, taken over several required
\* domains and counted as successful like the ones before it
C18_Witness ==
    /\ last.op = "route" /\ last.raised = "none"
    /\ total_queries = MaxRoutes /\ successful_routings = MaxRoutes
    /\ Len(last.task.required_domains) >= 2
    /\ last.before.successful_routings = MaxRoutes - 1

(***************************************************************************)
(* Route after route on a system constructed over experts that served a    *)
(* long run before (AlphaHyperionSystem(experts=...)): in nueva their load *)
(* and fatigue stand where update_performance leaves a saturated expert    *)
(* (cap minus one recovery), in hyperion their availability went through   *)
(* one prioritisation by the supervisor                                     *)
(***************************************************************************)
WornExpert(v, e) ==
    IF v = "nueva"
    THEN LET load == e.max_load_capacity - e.recovery_rate
         IN  [e EXCEPT !.load = load,
                       !.fatigue = MulK(e.max_load_capacity, 800) - MulK(e.recovery_rate, 500),
                       !.availability = Max(700, 1000 - MulK((load * 1000) \div e.max_load_capacity, 300))]
    ELSE [e EXCEPT !.availability = Min(1000, @ + 30)]

InitWorn ==
    \E v \in Variants :
        /\ variant = v
        /\ roster = "worn"
        /\ experts = [id \in ExpertIdSet |-> WornExpert(v, create_default_experts(v)[id])]
        /\ classifier = NewClassifier
        /\ monte_carlo = [k \in {} |-> 0]
        /\ router = NewRouter
        /\ meta_agent = NewMetaAgent
        /\ total_queries = 0
        /\ successful_routings = 0
        /\ routing_history = <<>>
        /\ clock = ClockStart
        /\ threads = <<>>
        /\ last = [op |-> "init"]
        /\ returned = [t \in {} |-> 0]
        /\ observed = <<>>
        /\ steps = 0
SpecWorn == InitWorn /\ [][Next]_vars

ExpertInBounds(e) ==
    /\ HasAttr(e, "load") => (0 <= e.load /\ e.load <= e.max_load_capacity)
    /\ 0 <= e.fatigue /\ e.fatigue <= MulK(e.max_load_capacity, 800)
    /\ 0 <= e.availability /\ e.availability <= 1000
    /\ 0 <= e.success_rate /\ e.success_rate <= 1000

\* C19: after any sequence of route calls (the update of each selected
\* expert plus the supervisor's corrections) every expert has its load in
\* [0, max_load_capacity], its fatigue in [0, 0.8 x max_load_capacity], and
\* its availability and success_rate in [0, 1].
C19_ExpertBounds == \A id \in DOMAIN experts : ExpertInBounds(experts[id])

\* C19 witness: a decision updated an expert whose load would have passed
\* its capacity and whose fatigue would have passed 0.8 x capacity
C19_Witness ==
    /\ last.op = "route" /\ last.raised = "none" /\ variant = "nueva"
    /\ \E i \in 1..Len(last.result.experts) :
          LET id == last.result.experts[i]
              e == last.before.experts[id]
              c == Complexity(variant, last.task)
          IN  /\ e.load + MulK(c, 800) > e.max_load_capacity
              /\ e.fatigue + MulK(c, 500) > MulK(e.max_load_capacity, 800)
              /\ experts[id].load = e.max_load_capacity - e.recovery_rate

\* a prioritisation by the supervisor that met the cap of availability
C19_AvailabilityCapped ==
    /\ last.op = "route" /\ variant = "hyperion"
    /\ \E id \in DOMAIN experts :
          /\ experts[id].availability = 1000
          /\ last.before.experts[id].availability + 30 > 1000

\* C20: the complexity of every Task route_query builds equals
\* 0.4*domain_breadth + 0.4*interdependency + 0.2*task_scope clamped to
\* [0, 1]; it never exceeds 1, also for a multi-domain query classified
\* with complexity 1.0.
C20_ComplexityClamped ==
    (last.op = "route" /\ last.raised = "none") =>
        LET t == last.task
            weighted == (400 * t.domain_breadth + 400 * t.interdependency
                         + 200 * t.task_scope) \div 1000
        IN  /\ Complexity(variant, t) = Clip(weighted, 0, 1000)
            /\ Complexity(variant, t) <= 1000

\* the second half alone: no built Task has a complexity above 1 (the
\* classifiers return at most 0.9)
C20_AtMostOne ==
    (last.op = "route" /\ last.raised = "none") => Complexity(variant, last.task) <= 1000

(***************************************************************************)
(* The Nueva carpeta engine trial by trial.  A trial is the record of its  *)
(* random draws: noise[i] is np.random.normal for the i-th expert, factor  *)
(* is np.random.uniform(0.95, 1.05) when np.random.random() < 0.35 and 1   *)
(* otherwise, floor is np.random.uniform(1.03, 1.08).  The number of       *)
(* trials (60 to 150 in the source) is scaled down.                        *)
(***************************************************************************)
NumTrials == 2
MaxTrialRuns == 2

\* BENCHMARK_DATASETS in iteration order
BENCHMARK_DATASETS ==
    << [complexity |-> 400, domains |-> {"mathematics"}, expected_performance |-> 880],
       [complexity |-> 800, domains |-> {"mathematics"}, expected_performance |-> 850],
       [complexity |-> 1300, domains |-> {"mathematics", "programming"}, expected_performance |-> 820],
       [complexity |-> 500, domains |-> {"programming"}, expected_performance |-> 840],
       [complexity |-> 900, domains |-> {"programming"}, expected_performance |-> 800],
       [complexity |-> 1400, domains |-> {"programming", "language"}, expected_performance |-> 760],
       [complexity |-> 300, domains |-> {"language"}, expected_performance |-> 820],
       [complexity |-> 700, domains |-> {"language", "mathematics"}, expected_performance |-> 780] >>

AbsDiff(a, b) == IF a < b THEN b - a ELSE a - b

\* the scan "if diff < min_diff": the first matching entry nearest in
\* complexity, or the fallback when no entry matches
NearestBenchmark(matches, c, fallback) ==
    LET idx == {i \in 1..Len(BENCHMARK_DATASETS) : matches[i]}
        diff(i) == AbsDiff(c, BENCHMARK_DATASETS[i].complexity)
    IN  IF idx = {} THEN fallback
        ELSE LET best == CHOOSE i \in idx :
                            /\ \A j \in idx : diff(i) <= diff(j)
                            /\ \A j \in idx : j < i => diff(i) < diff(j)
             IN  BENCHMARK_DATASETS[best].expected_performance

\* one trial of _simulate_single_expert before np.clip
SingleRaw(e, task, noise) ==
    LET c == Complexity("nueva", task)
        base_perf == NearestBenchmark(
                        [i \in 1..Len(BENCHMARK_DATASETS) |-> e.domain \in BENCHMARK_DATASETS[i].domains],
                        c, e.success_rate)
        fatigue_impact == Max(880, 1000 - e.fatigue \div 20)
        load_impact == Max(900, 1000000 \div (1000 + MulK(e.load, 250)))
        domain_bonus == IF e.domain \in Range(task.required_domains) THEN 1080 ELSE 1000
        specialization_bonus == 1000 + MulK(e.specialization_score - 1000, 150)
    IN  MulK(MulK(MulK(MulK(base_perf, fatigue_impact), load_impact), domain_bonus),
             specialization_bonus) + noise

\* a trial appended without np.clip
SingleTrialUnclipped(e, task, noise) == SingleRaw(e, task, noise)

SingleTrial(e, task, noise) == Clip(SingleRaw(e, task, noise), 450, 920)

\* _calculate_load_balance
_calculate_load_balance(reg, ids) ==
    LET n == Len(ids)
        avg_load == SumSeq([i \in 1..n |-> reg[ids[i]].load]) \div n
        avg_fatigue == SumSeq([i \in 1..n |-> reg[ids[i]].fatigue]) \div n
    IN  Clip(1000000 \div (1000 + MulK(avg_load, 600) + MulK(avg_fatigue, 50)), 750, 1000)

\* one trial of _simulate_multi_expert before the final np.clip
MultiRaw(reg, ids, task, trial) ==
    LET n == Len(ids)
        c == Complexity("nueva", task)
        team_domains == {reg[ids[i]].domain : i \in 1..n}
        expected_perf == NearestBenchmark(
                            [i \in 1..Len(BENCHMARK_DATASETS) |->
                                BENCHMARK_DATASETS[i].domains \subseteq team_domains],
                            c, SumSeq([i \in 1..n |-> reg[ids[i]].success_rate]) \div n)
        perf(i) == LET e == reg[ids[i]]
                       fatigue_impact == Max(900, 1000 - e.fatigue \div 22)
                       load_impact == Max(920, 1000000 \div (1000 + MulK(e.load, 200)))
                       domain_bonus == IF e.domain \in Range(task.required_domains)
                                       THEN 1100 ELSE 1000
                   IN  Clip(MulK(MulK(MulK(expected_perf, fatigue_impact), load_impact),
                                 domain_bonus) + trial.noise[i], 550, 950)
        avg_individual == SumSeq([i \in 1..n |-> perf(i)]) \div n
        collab_bonus == MulK(_calculate_synergy(reg, ids) - 1000, 1600)
        communication_overhead == Max(980, 1000 - (n - 1) * 4)
        unique_domains == Cardinality(team_domains)
        diversity_bonus == IF unique_domains > 1 THEN 100 * (unique_domains - 1) ELSE 0
        collab_perf == MulK(MulK(MulK(avg_individual, 1000 + collab_bonus + diversity_bonus),
                                 communication_overhead),
                            _calculate_load_balance(reg, ids))
        min_expected == MulK(avg_individual, trial.floor)
    IN  Max(min_expected, MulK(collab_perf, trial.factor))

MultiTrial(reg, ids, task, trial) == Clip(MultiRaw(reg, ids, task, trial), 550, 950)

\* results: one entry per trial
TrialResults(reg, ids, task, trials) ==
    [k \in 1..Len(trials) |->
        IF Len(ids) = 1 THEN SingleTrial(reg[ids[1]], task, trials[k].noise[1])
        ELSE MultiTrial(reg, ids, task, trials[k])]

TrialRaws(reg, ids, task, trials) ==
    [k \in 1..Len(trials) |->
        IF Len(ids) = 1 THEN SingleRaw(reg[ids[1]], task, trials[k].noise[1])
        ELSE MultiRaw(reg, ids, task, trials[k])]

\* np.mean(results)
MeanOf(results) == SumSeq(results) \div Len(results)

\* np.std(results): the root of the mean squared deviation
StdOf(results) ==
    LET m == MeanOf(results)
        var == SumSeq([k \in 1..Len(results) |-> (results[k] - m) * (results[k] - m)])
                 \div Len(results)
    IN  CHOOSE r \in 0..1000 : r * r <= var /\ var < (r + 1) * (r + 1)

\* the aggregates of the trials, as the draw simulate_collaboration reports
TrialsDraw(reg, ids, task, trials) ==
    LET results == TrialResults(reg, ids, task, trials)
    IN  Draw(MeanOf(results), StdOf(results), 0, <<>>)

Trial(noise, factor, floor) == [noise |-> noise, factor |-> factor, floor |-> floor]

TrialSet ==
    { Trial(<<0, 0>>, 1000, 1030),
      Trial(<<2000, 2000>>, 1050, 1080),        \* noise far above
      Trial(<<0 - 2000, 0 - 2000>>, 950, 1030), \* noise far below
      Trial(<<60, 0 - 40>>, 1000, 1080) }

TrialSeqs == [1..NumTrials -> TrialSet]

RunTrials(call, trials) ==
    /\ steps < MaxTrialRuns
    /\ \E r \in {simulate_collaboration(variant, experts, monte_carlo, call.ids, call.task,
                                        TrialsDraw(experts, call.ids, call.task, trials))} :
          /\ monte_carlo' = r.cache
          /\ last' = [op |-> "trials", ids |-> call.ids, task |-> call.task,
                      result |-> r.result,
                      hit |-> SimCacheKey(variant, call.ids, call.task) \in DOMAIN monte_carlo,
                      raws |-> TrialRaws(experts, call.ids, call.task, trials)]
    /\ steps' = steps + 1
    /\ UNCHANGED <<variant, roster, experts, classifier, router, meta_agent, total_queries,
                   successful_routings, routing_history, clock, threads, returned, observed>>

InitTrials == Construct("nueva", "default")
NextTrials ==
    \/ \E call \in SimCalls, trials \in TrialSeqs : RunTrials(call, trials)
    \/ Wear(<<"mathstral:7b", "codegemma:2b">>)
SpecTrials == InitTrials /\ [][NextTrials]_vars

\* C21: the mean_performance simulate returns lies in [0.45, 0.92] for a
\* single-expert call and in [0.55, 0.95] for a multi-expert call, whatever
\* the experts' state, the task and the random draws of the trials.
C21_MeanWithinClip ==
    last.op = "trials" =>
        IF Len(last.ids) = 1
        THEN 450 <= last.result.mean_performance /\ last.result.mean_performance <= 920
        ELSE 550 <= last.result.mean_performance /\ last.result.mean_performance <= 950

\* C21 witness: a single-expert simulation all of whose trials came out
\* above the upper bound before the clip
C21_Witness ==
    /\ last.op = "trials" /\ ~last.hit /\ Len(last.ids) = 1
    /\ \A k \in 1..NumTrials : last.raws[k] > 920
    /\ last.result.mean_performance = 920

\* a multi-expert simulation all of whose trials came out above the upper
\* bound before the clip (the floor avg_individual x uniform[1.03, 1.08]
\* keeps a trial above 0.55, so the lower clip never engages there)
C21_MultiAtCeiling ==
    /\ last.op = "trials" /\ ~last.hit /\ Len(last.ids) = 2
    /\ \A k \in 1..NumTrials : last.raws[k] > 950
    /\ last.result.mean_performance = 950

\* C22: the complexity classify_fast returns lies in [0, 1] for every text
\* (any length, any combination of matched keywords and patterns), on a
\* miss and on a hit.
C22_ComplexityInUnitRange ==
    /\ last.op = "classify" =>
          0 <= last.result.complexity /\ last.result.complexity <= 1000
    /\ \A k \in DOMAIN classifier.cache :
          0 <= classifier.cache[k].complexity /\ classifier.cache[k].complexity <= 1000

\* C22 witness: a long text that matches keywords of several groups
C22_Witness ==
    /\ last.op = "classify"
    /\ WordCount(last.text) > 15
    /\ Cardinality(TextKeywords(Lower(last.text))) >= 3
    /\ last.result.complexity >= 400

\* C23: the intervention counter and the last-intervention time change
\* only in a step that also records an intervention entry listing at least
\* one applied correction, so a conflict to which no correction applies
\* does not use up the cooldown.
C23_SlotOnlyWithCorrection ==
    (/\ last.op = "observe" /\ last.raised = "none"
     /\ \/ meta_agent.intervention_count # last.before.meta_agent.intervention_count
        \/ meta_agent.last_intervention_time # last.before.meta_agent.last_intervention_time)
    => LET h == meta_agent.intervention_history
       IN  /\ h # <<>>
           /\ h[Len(h)].type = "conflict_resolution"
           /\ h[Len(h)].time = last.now
           /\ h[Len(h)].interventions # <<>>

\* the consequence: a conflict with something to correct, seen less than 5
\* seconds after a conflict that corrected nothing, is acted upon
C23_NextConflictNotBlocked ==
    (/\ last.op = "observe" /\ last.conflict /\ last.raised = "none"
     /\ last.std_perf > 100
     /\ last.before.meta_agent.intervention_history = <<>>)
    => experts # last.before.experts

\* C24: for a multi-expert team the synergy the simulator computes is the
\* base value of the domain-pair lookup times the arithmetic mean of the
\* pairwise collaboration-history multipliers; for two experts whose
\* multiplier is the default 1.0 it is the base value.
C24_SynergyBaseTimesMean ==
    (last.op = "trials" /\ ~last.hit /\ Len(last.ids) > 1) =>
        LET P == Pairs(last.ids)
            hist == [p \in P |-> CollabGet(experts[last.ids[p[1]]], last.ids[p[2]])]
            mean == SumOver(hist, P) \div Cardinality(P)
            base == BaseSynergyNueva(experts, last.ids)
        IN  /\ last.result.synergy = MulK(base, mean)
            /\ (\A p \in P : hist[p] = 1000) => last.result.synergy = base

(***************************************************************************)
(* The synergy of the Nueva carpeta engine on every ordered team of two or *)
(* three experts, on the rosters with distinct and with shared domain      *)
(* tags, between the corrections that move the collaboration history       *)
(***************************************************************************)
Teams ==
    {ids \in [1..2 -> ExpertIdSet] \cup [1..3 -> ExpertIdSet] :
        \A i, j \in 1..Len(ids) : i # j => ids[i] # ids[j]}

Reverse(s) == [i \in 1..Len(s) |-> s[Len(s) + 1 - i]]

Synergy(ids) ==
    /\ steps < MaxSimCalls
    /\ last' = [op |-> "synergy", ids |-> ids,
                base |-> BaseSynergyNueva(experts, ids),
                reversed |-> BaseSynergyNueva(experts, Reverse(ids)),
                synergy |-> _calculate_synergy(experts, ids)]
    /\ steps' = steps + 1
    /\ UNCHANGED <<variant, roster, experts, classifier, monte_carlo, router, meta_agent,
                   total_queries, successful_routings, routing_history, clock, threads,
                   returned, observed>>

InitSynergy == \E r \in Rosters : Construct("nueva", r)
NextSynergy ==
    \/ \E ids \in Teams : Synergy(ids)
    \/ \E ids \in Teams : Wear(ids)
SpecSynergy == InitSynergy /\ [][NextSynergy]_vars

\* C25: the base synergy of a two-expert team does not depend on the order
\* of the experts and is the table entry of the team's unordered domain
\* pair whenever the table has one (mathematics-programming 1.15,
\* mathematics-language 1.08, programming-language 1.10); the default 1.05
\* is used only for a pair without an entry.
C25_BaseSynergyFromTable ==
    (last.op = "synergy" /\ Len(last.ids) = 2) =>
        LET pair == {experts[last.ids[1]].domain, experts[last.ids[2]].domain}
            entry == CASE pair = {"mathematics", "programming"} -> 1150
                       [] pair = {"mathematics", "language"} -> 1080
                       [] pair = {"programming", "language"} -> 1100
                       [] OTHER -> 1050
        IN  /\ last.base = last.reversed
            /\ last.base = entry

\* the symmetry alone
C25_OrderIndependent == last.op = "synergy" => last.base = last.reversed

\* C26: the conflict rate of the supervisor's statistics is the fraction
\* of the last 50 observations (scaled) for which the conflict predicate
\* that gates interventions is true.
C26_ConflictRateMatchesPredicate ==
    meta_agent.observations # <<>> =>
        LET recent_obs == RecentObservations(meta_agent)
            gated == Cardinality({i \in 1..Len(recent_obs) : _detect_conflict(recent_obs[i])})
        IN  ConflictRate(meta_agent) = (gated * 1000) \div Len(recent_obs)

(***************************************************************************)
(* The supervisor observing experts that were corrected before: the        *)
(* specialization_score of mathstral:7b stands at 2.0, where ten boosts    *)
(* from its initial 1.5 leave it                                           *)
(***************************************************************************)
InitBoosted ==
    \E v \in Variants :
        /\ variant = v
        /\ roster = "boosted"
        /\ experts = [create_default_experts(v) EXCEPT
                         !["mathstral:7b"].specialization_score = 2000]
        /\ classifier = NewClassifier
        /\ monte_carlo = [k \in {} |-> 0]
        /\ router = NewRouter
        /\ meta_agent = NewMetaAgent
        /\ total_queries = 0
        /\ successful_routings = 0
        /\ routing_history = <<>>
        /\ clock = ClockStart
        /\ threads = <<>>
        /\ last = [op |-> "init"]
        /\ returned = [t \in {} |-> 0]
        /\ observed = <<>>
        /\ steps = 0
SpecBoosted == InitBoosted /\ [][NextMeta]_vars

C27_RaisedByStep ==
    /\ last.op = "observe" /\ last.raised = "none"
    /\ \E id \in Range(last.experts) :
          experts[id].specialization_score
             = last.before.experts[id].specialization_score + 50

(***************************************************************************)
(* One caller, one route_query at a time, followed statement by statement. *)
(* The call can be abandoned while it waits for the backend: the handler   *)
(* of _query_ollama catches Exception only, so a KeyboardInterrupt (or the *)
(* end of the caller's patience) leaves route_query there.                 *)
(***************************************************************************)
Begin(q, draw, backend, dt) ==
    /\ Len(threads) < MaxRequests
    /\ IF threads = <<>> THEN TRUE ELSE Finished(threads[Len(threads)])
    /\ threads' = Append(threads, NewFrame(q, draw, backend))
    /\ clock' = clock + dt
    /\ last' = [op |-> "begin", before |-> Sys]
    /\ UNCHANGED <<variant, roster, experts, classifier, monte_carlo, router, meta_agent,
                   total_queries, successful_routings, routing_history, returned, observed,
                   steps>>

\* the next statement of the call in progress
Advance ==
    /\ threads # <<>>
    /\ ~Finished(threads[Len(threads)])
    /\ \E n \in {RouteStep(variant, Sys, threads[Len(threads)], clock)} :
          /\ Install(n.sys)
          /\ threads' = [threads EXCEPT ![Len(threads)] = n.fr]
    /\ UNCHANGED <<variant, roster, clock, last, returned, observed, steps>>

\* the call is abandoned during the dispatch to the backend
Abandon ==
    /\ threads # <<>>
    /\ threads[Len(threads)].pc = "backend"
    /\ threads' = [threads EXCEPT ![Len(threads)] =
                      [@ EXCEPT !.pc = "raised", !.raised = "KeyboardInterrupt"]]
    /\ UNCHANGED <<variant, roster, experts, classifier, monte_carlo, router, meta_agent,
                   total_queries, successful_routings, routing_history, clock, last,
                   returned, observed, steps>>

InitCall == \E v \in Variants : \E r \in {"default"} : Construct(v, r)
NextCall ==
    \/ \E q \in Queries, draw \in RouteDraws, dt \in TimeSteps :
          \E backend \in BackendOutcomes(variant) : Begin(q, draw, backend, dt)
    \/ Advance
    \/ Abandon
SpecCall == InitCall /\ [][NextCall]_vars

RECURSIVE AfterUpdates(_, _, _, _, _, _)
\* the registry and the router after the updates of the experts ids[k..]
AfterUpdates(v, reg, rt, fr, ids, k) ==
    IF k > Len(ids) THEN [experts |-> reg, router |-> rt]
    ELSE LET id == ids[k]
             perf == fr.mc.mean_performance
         IN  AfterUpdates(v,
                 [reg EXCEPT ![id] = update_performance(v, @, perf, Complexity(v, fr.task))],
                 update_performance_memory(v, rt, id, fr.task, perf), fr, ids, k + 1)

\* C28: within a route call the steps occur in the order classify, build
\* Task, rank, select, simulate, update the chosen experts and the
\* performance memory, supervisor.observe, backend dispatch, append to the
\* history: the supervisor observes the experts as they are after the
\* update, every update of the registry, the memory and the counters is
\* made before the backend is invoked, and a call abandoned during the
\* dispatch has changed that state without adding a history entry.
C28_StepOrder ==
    (threads # <<>> /\ last.op = "begin") =>
        LET fr == threads[Len(threads)]
            s0 == last.before
            c == classify_fast(variant, s0.classifier, fr.query)
            selected == fr.pc \notin {"start"} /\ fr.ids # <<>>
            counted == fr.pc \in {"update", "assign_write", "observe", "backend", "done"}
                       \/ fr.raised \in {"KeyboardInterrupt", "AttributeError"}
            updated == fr.pc \in {"observe", "backend", "done"}
                       \/ fr.raised \in {"KeyboardInterrupt", "AttributeError"}
            seen == fr.pc \in {"backend", "done"} \/ fr.raised = "KeyboardInterrupt"
            u == AfterUpdates(variant, s0.experts, s0.router, fr, fr.ids, 1)
        IN  /\ fr.pc = "start" => Sys = s0
            /\ selected =>
                  /\ fr.classified = c.result /\ classifier = c.classifier
                  /\ fr.task = BuildTask(c.result.domains, c.result.complexity)
                  /\ fr.candidates = _get_relevant_experts(variant, s0.experts, fr.task)
                  /\ Range(fr.ids) \subseteq Range(fr.candidates)
                  /\ fr.mc = simulate_collaboration(variant, s0.experts, s0.monte_carlo,
                                                    fr.ids, fr.task, fr.draw).result
            /\ (selected /\ ~updated) => meta_agent = s0.meta_agent
            /\ (selected /\ ~counted) => experts = s0.experts /\ router = s0.router
            /\ counted => total_queries = s0.total_queries + 1
            /\ (updated /\ ~seen /\ fr.raised = "none") =>
                  /\ experts = u.experts /\ router = u.router
                  /\ meta_agent = s0.meta_agent
            /\ seen =>
                  LET o == observe(variant, u.experts, s0.meta_agent, fr.ids, fr.task,
                                   fr.mc, <<>>, clock)
                  IN  /\ experts = o.reg /\ meta_agent = o.agent
                      /\ router = u.router
                      /\ total_queries = s0.total_queries + 1
            /\ fr.pc # "done" => routing_history = s0.routing_history
            /\ fr.pc = "done" =>
                  routing_history = DequeAppend(s0.routing_history, fr.result, HistoryCap)

\* C28 witness: a call abandoned during the dispatch: the experts, the
\* memory, the counters and the supervisor have changed, the history has not
C28_Witness ==
    /\ threads # <<>> /\ last.op = "begin"
    /\ threads[Len(threads)].raised = "KeyboardInterrupt"
    /\ experts # last.before.experts
    /\ router # last.before.router
    /\ meta_agent.observations # last.before.meta_agent.observations
    /\ total_queries = last.before.total_queries + 1
    /\ routing_history = last.before.routing_history

\* the supervisor changes an expert the loop has already updated: what the
\* dispatch finds is neither the registry at the call's start nor the one
\* the loop left
C28_ObservedAfterUpdate ==
    /\ threads # <<>> /\ last.op = "begin"
    /\ threads[Len(threads)].pc = "backend"
    /\ LET fr == threads[Len(threads)]
           u == AfterUpdates(variant, last.before.experts, last.before.router, fr, fr.ids, 1)
       IN  /\ u.experts # last.before.experts
           /\ experts # u.experts


(***************************************************************************)
(* What a route call leaves alone                                          *)
(***************************************************************************)
\* the experts route_query selects in state s for the classified task
ChosenIds(v, s, task) ==
    IF RelevantRaises(v, s.experts, task) THEN <<>>
    ELSE LookupSelected(s.experts,
             select_experts(v, s.experts, s.router.performance_memory,
                            _get_relevant_experts(v, s.experts, task), task)).ids

\* the part of function f whose keys satisfy Mine
Restrict(f, Mine(_)) == [k \in {x \in DOMAIN f : Mine(x)} |-> f[k]]

\* everything the system holds about expert id
ExpertView(s, id) ==
    LET first(k) == k[1] = id
        self(k) == k = id
    IN  [expert |-> s.experts[id],
         reputation |-> Restrict(s.meta_agent.reputation, self),
         assignments |-> Restrict(s.router.expert_assignments, self),
         memory |-> Restrict(s.router.performance_memory, first)]

\* C29: a route call changes only the experts it selected: for every
\* expert not among the chosen ids, load, fatigue, availability,
\* success_rate, specialization_score, collaboration history, reputation,
\* assignment counter and performance-memory windows are unchanged by the
\* call; an idle expert neither recovers nor decays.
C29_OnlyChosenChange ==
    last.op = "route" =>
        \A id \in ExpertIdSet \ Range(ChosenIds(variant, last.before, last.task)) :
            ExpertView(Sys, id) = ExpertView(last.before, id)

\* C29 witness: a call that changed the expert it chose and left alone a
\* tired expert it did not choose
C29_Witness ==
    /\ last.op = "route" /\ last.raised = "none"
    /\ Range(last.result.experts) = Range(ChosenIds(variant, last.before, last.task))
    /\ \E id \in Range(last.result.experts) :
          ExpertView(Sys, id) # ExpertView(last.before, id)
    /\ \E id \in ExpertIdSet \ Range(last.result.experts) :
          /\ experts[id].fatigue > 0
          /\ experts[id].availability < 1000
          /\ ExpertView(Sys, id) = ExpertView(last.before, id)

\* an expert chosen by an earlier call and idle in this one keeps the
\* reputation, the counter and the memory the earlier call gave it
C29_IdleKeepsRecord ==
    /\ last.op = "route" /\ last.raised = "none"
    /\ \E id \in ExpertIdSet \ Range(last.result.experts) :
          /\ id \in DOMAIN meta_agent.reputation
          /\ id \in DOMAIN router.expert_assignments
          /\ \E k \in DOMAIN router.performance_memory : k[1] = id
          /\ ExpertView(Sys, id) = ExpertView(last.before, id)


(***************************************************************************)
(* The collaboration history under route calls                             *)
(***************************************************************************)
\* the corrections of kind k recorded in the supervisor's intervention log
Recorded(agent, k) ==
    {c \in UNION {Range(agent.intervention_history[i].interventions) :
                     i \in 1..Len(agent.intervention_history)} : c.kind = k}

\* C30: in every state reachable by route calls from the default roster,
\* every expert's collaboration_history is empty: the synergy the simulator
\* reports is never below 1, so the supervisor's collaboration-decay
\* correction (synergy < 1 with more than one expert) never fires and its
\* low-synergy conflict condition (synergy < 0.98) is never the cause of a
\* conflict.
C30_CollaborationHistoryEmpty ==
    /\ \A id \in DOMAIN experts :
          HasAttr(experts[id], "collaboration_history") =>
              DOMAIN experts[id].collaboration_history = {}
    /\ \A i \in 1..Len(meta_agent.observations) :
          /\ meta_agent.observations[i].synergy >= 1000
          /\ ~(/\ meta_agent.observations[i].synergy < low_synergy_threshold
               /\ Len(meta_agent.observations[i].experts) > 1)
    /\ (last.op = "route" /\ last.raised = "none") => last.result.synergy >= 1000
    /\ last.op = "route" => last.raised # "AttributeError"
    /\ Recorded(meta_agent, "collab") = {}

\* C30 witness: two experts routed together, the supervisor found a
\* conflict and corrected, the synergy reported was above 1 and no
\* collaboration history was written
C30_Witness ==
    /\ last.op = "route" /\ last.raised = "none"
    /\ Len(last.result.experts) > 1
    /\ last.result.synergy >= 1000
    /\ meta_agent.intervention_count > last.before.meta_agent.intervention_count
    /\ Recorded(meta_agent, "prio") # {}
    /\ \A id \in Range(last.result.experts) :
          /\ HasAttr(experts[id], "collaboration_history")
          /\ DOMAIN experts[id].collaboration_history = {}

=============================================================================
